---- MODULE Spec2Model ----
(***************************************************************************)
(* Receipt processing of spend-scan-savvy: the process-receipt edge        *)
(* function (supabase/functions/process-receipt/index.ts, first revision,  *)
(* lines 1-760).  Text is a TLA+ string; a character is a string of        *)
(* length one.  Money is counted in cents.  Dates are day numbers.         *)
(***************************************************************************)
EXTENDS Integers, Sequences, FiniteSets, TLC

(***************************************************************************)
(* Characters and strings (JavaScript String methods).                     *)
(***************************************************************************)
At(s, i) == SubSeq(s, i, i)

Uppers == "ABCDEFGHIJKLMNOPQRSTUVWXYZ"
Lowers == "abcdefghijklmnopqrstuvwxyz"
Digits == "0123456789"

UpperSet == {At(Uppers, i) : i \in 1..Len(Uppers)}
LowerSet == {At(Lowers, i) : i \in 1..Len(Lowers)}
Digit == {At(Digits, i) : i \in 1..Len(Digits)}
Space == {" ", "\t", "\n"}
Letter == UpperSet \cup LowerSet
Word == Letter \cup Digit \cup {"_"}

LowerMap == [c \in UpperSet |-> At(Lowers, CHOOSE i \in 1..Len(Uppers) : At(Uppers, i) = c)]
UpperMap == [c \in LowerSet |-> At(Uppers, CHOOSE i \in 1..Len(Lowers) : At(Lowers, i) = c)]
DigitMap == [c \in Digit |-> (CHOOSE i \in 1..Len(Digits) : At(Digits, i) = c) - 1]

LowerCh(c) == IF c \in UpperSet THEN LowerMap[c] ELSE c
UpperCh(c) == IF c \in LowerSet THEN UpperMap[c] ELSE c

RECURSIVE toLowerCase(_)
toLowerCase(s) ==
  IF Len(s) = 0 THEN "" ELSE LowerCh(At(s, 1)) \o toLowerCase(SubSeq(s, 2, Len(s)))

RECURSIVE toUpperCase(_)
toUpperCase(s) ==
  IF Len(s) = 0 THEN "" ELSE UpperCh(At(s, 1)) \o toUpperCase(SubSeq(s, 2, Len(s)))

\* String.prototype.includes
includes(s, w) == \E i \in 1..(Len(s) - Len(w) + 1) : SubSeq(s, i, i + Len(w) - 1) = w

\* String.prototype.substring(0, n)
substring0(s, n) == SubSeq(s, 1, IF Len(s) < n THEN Len(s) ELSE n)

\* String.prototype.trim
RECURSIVE trimStart(_)
trimStart(s) ==
  IF Len(s) > 0 /\ At(s, 1) \in Space THEN trimStart(SubSeq(s, 2, Len(s))) ELSE s

RECURSIVE trimEnd(_)
trimEnd(s) ==
  IF Len(s) > 0 /\ At(s, Len(s)) \in Space THEN trimEnd(SubSeq(s, 1, Len(s) - 1)) ELSE s

trim(s) == trimEnd(trimStart(s))

\* s.replace(/[^...]/g, ''): keep the characters of the set
RECURSIVE keepChars(_, _)
keepChars(s, keep) ==
  IF Len(s) = 0 THEN ""
  ELSE (IF At(s, 1) \in keep THEN At(s, 1) ELSE "") \o keepChars(SubSeq(s, 2, Len(s)), keep)

\* s.replace(/[...]/g, ''): drop the characters of the set
RECURSIVE dropChars(_, _)
dropChars(s, drop) ==
  IF Len(s) = 0 THEN ""
  ELSE (IF At(s, 1) \in drop THEN "" ELSE At(s, 1)) \o dropChars(SubSeq(s, 2, Len(s)), drop)

\* text.split('\n')
RECURSIVE splitFrom(_, _, _)
splitFrom(s, from, i) ==
  IF i > Len(s) THEN <<SubSeq(s, from, Len(s))>>
  ELSE IF At(s, i) = "\n" THEN <<SubSeq(s, from, i - 1)>> \o splitFrom(s, i + 1, i + 1)
  ELSE splitFrom(s, from, i + 1)

split(s) == splitFrom(s, 1, 1)

(***************************************************************************)
(* Regular expressions: a backtracking matcher with the priority order of  *)
(* the JavaScript engine (alternatives left to right, greedy quantifiers   *)
(* longest first, lazy ones shortest first).  A pattern is a record        *)
(* [re, ci, n]: the expression, the i flag, the number of capture groups.  *)
(***************************************************************************)
Inf == 9999

In(S) == [t |-> "set", s |-> S]
NotIn(S) == [t |-> "nset", s |-> S]
Lit(w) == [t |-> "lit", w |-> w]
Cat(rs) == [t |-> "seq", rs |-> rs]
Alt(rs) == [t |-> "alt", rs |-> rs]
Rep(r, min, max) == [t |-> "rep", r |-> r, min |-> min, max |-> max, lazy |-> FALSE]
RepLazy(r, min, max) == [t |-> "rep", r |-> r, min |-> min, max |-> max, lazy |-> TRUE]
Opt(r) == Rep(r, 0, 1)
Grp(k, r) == [t |-> "grp", k |-> k, r |-> r]
Bol == [t |-> "bol"]
Eol == [t |-> "eol"]
AnyCh == NotIn({"\n"})

Pat(re, ci, n) == [re |-> re, ci |-> ci, n |-> n]

NoCaps == <<"", "", "">>
Fail == [ok |-> FALSE, e |-> 0, c |-> NoCaps]

Fold(c, ci) == IF ci THEN LowerCh(c) ELSE c

\* one character against a character class
ChOk(r, ch, ci) ==
  IF r.t = "set" THEN Fold(ch, ci) \in r.s ELSE Fold(ch, ci) \notin r.s

\* how many characters from position i on belong to the class r, at most max
atMost(a, max) == IF a < 0 THEN 0 ELSE IF a < max THEN a ELSE max
firstOf(bad, lim) == IF bad = {} THEN lim ELSE CHOOSE j \in bad : \A k \in bad : j <= k
runUpTo(r, s, i, lim, ci) == firstOf({j \in 0..(lim - 1) : ~ChOk(r, At(s, i + j), ci)}, lim)
runLength(r, s, i, max, ci) == runUpTo(r, s, i, atMost(Len(s) - i + 1, max), ci)

\* k: the expressions still to match, in order (the continuation)
RECURSIVE Run(_, _, _, _, _)
RECURSIVE tryCounts(_, _, _, _, _, _, _, _)
Run(k, s, i, c, ci) ==
  IF Len(k) = 0 THEN [ok |-> TRUE, e |-> i, c |-> c]
  ELSE
    LET r == Head(k)
        rest == Tail(k)
    IN CASE r.t \in {"set", "nset"} ->
              IF i <= Len(s) /\ ChOk(r, At(s, i), ci)
              THEN Run(rest, s, i + 1, c, ci) ELSE Fail
         [] r.t = "lit" ->
              IF i + Len(r.w) - 1 <= Len(s)
                 /\ (IF ci THEN toLowerCase(SubSeq(s, i, i + Len(r.w) - 1))
                           ELSE SubSeq(s, i, i + Len(r.w) - 1)) = r.w
              THEN Run(rest, s, i + Len(r.w), c, ci) ELSE Fail
         [] r.t = "seq" -> Run(r.rs \o rest, s, i, c, ci)
         [] r.t = "alt" ->
              IF Len(r.rs) = 0 THEN Fail
              ELSE LET first == Run(<<Head(r.rs)>> \o rest, s, i, c, ci)
                   IN IF first.ok THEN first
                      ELSE Run(<<Alt(Tail(r.rs))>> \o rest, s, i, c, ci)
         [] r.t = "rep" /\ r.r.t \in {"set", "nset"} ->
              \* a quantified character class: the counts it can take, tried
              \* longest first (greedy) or shortest first (lazy)
              LET n == runLength(r.r, s, i, r.max, ci)
              IN IF n < r.min THEN Fail
                 ELSE IF r.lazy THEN tryCounts(rest, s, i, c, ci, r.min, n, 1)
                 ELSE tryCounts(rest, s, i, c, ci, n, r.min, -1)
         [] r.t = "rep" /\ r.r.t \notin {"set", "nset"} ->
              LET less == [r EXCEPT !.min = IF r.min > 0 THEN r.min - 1 ELSE 0,
                                    !.max = r.max - 1]
              IN IF r.max <= 0 THEN Run(rest, s, i, c, ci)
                 ELSE IF r.min > 0 THEN Run(<<r.r, less>> \o rest, s, i, c, ci)
                 ELSE IF r.lazy
                      THEN LET skip == Run(rest, s, i, c, ci)
                           IN IF skip.ok THEN skip
                              ELSE Run(<<r.r, less>> \o rest, s, i, c, ci)
                      ELSE LET more == Run(<<r.r, less>> \o rest, s, i, c, ci)
                           IN IF more.ok THEN more
                              ELSE Run(rest, s, i, c, ci)
         [] r.t = "grp" ->
              Run(<<r.r, [t |-> "close", k |-> r.k, from |-> i]>> \o rest, s, i, c, ci)
         [] r.t = "close" ->
              Run(rest, s, i, [c EXCEPT ![r.k] = SubSeq(s, r.from, i - 1)], ci)
         [] r.t = "bol" -> IF i = 1 THEN Run(rest, s, i, c, ci) ELSE Fail
         [] r.t = "eol" -> IF i = Len(s) + 1 THEN Run(rest, s, i, c, ci) ELSE Fail

\* the counts cnt, cnt + step, ..., last in turn: the first that lets the rest match
tryCounts(rest, s, i, c, ci, cnt, last, step) ==
  LET a == Run(rest, s, i + cnt, c, ci)
  IN IF a.ok THEN a
     ELSE IF cnt = last THEN Fail
     ELSE tryCounts(rest, s, i, c, ci, cnt + step, last, step)

NoMatch == [ok |-> FALSE, b |-> 0, e |-> 0, all |-> "", c |-> NoCaps, length |-> 0]

matchAt(p, s, b, m) ==
  [ok |-> TRUE, b |-> b, e |-> m.e, all |-> SubSeq(s, b, m.e - 1), c |-> m.c, length |-> p.n + 1]

\* the leftmost match starting at b or later
RECURSIVE searchFrom(_, _, _)
searchFrom(p, s, b) ==
  IF b > Len(s) + 1 THEN NoMatch
  ELSE LET m == Run(<<p.re>>, s, b, NoCaps, p.ci)
       IN IF m.ok THEN matchAt(p, s, b, m) ELSE searchFrom(p, s, b + 1)

\* s.match(p) and p.test(s) for a pattern without the g flag
match(s, p) == searchFrom(p, s, 1)
test(p, s) == match(s, p).ok

\* s.match(new RegExp(p, 'g')): every match[0], left to right, not overlapping
RECURSIVE matchAllFrom(_, _, _)
matchesAfter(p, s, m) ==
  IF ~m.ok THEN <<>>
  ELSE <<m.all>> \o matchAllFrom(p, s, IF m.e > m.b THEN m.e ELSE m.e + 1)
matchAllFrom(p, s, b) == matchesAfter(p, s, searchFrom(p, s, b))

matchAll(s, p) == matchAllFrom(p, s, 1)

(***************************************************************************)
(* Numbers.  parseFloat of the digit strings the patterns capture, in      *)
(* cents: every amount of the modelled texts has at most two fraction      *)
(* digits, so each float is the nearest double of a whole number of cents  *)
(* and Math.round(x * 100) / 100 gives that number back.                   *)
(***************************************************************************)
NaN == -1

RECURSIVE digitsValue(_, _)
digitsValue(s, acc) ==
  IF Len(s) = 0 THEN acc
  ELSE digitsValue(SubSeq(s, 2, Len(s)), 10 * acc + DigitMap[At(s, 1)])

\* parseInt of a string that starts with digits
intFrom(s, n) == IF n = 0 THEN NaN ELSE digitsValue(SubSeq(s, 1, n), 0)
parseInt(s) == intFrom(s, runLength(In(Digit), s, 1, Inf, FALSE))

\* parseFloat: the longest prefix digits [. digits], in cents
fracCents(frac) ==
  IF Len(frac) = 0 THEN 0
  ELSE IF Len(frac) = 1 THEN 10 * digitsValue(frac, 0) ELSE digitsValue(frac, 0)
floatOf(s, ni, nf) ==
  IF ni = 0 /\ nf = 0 THEN NaN
  ELSE 100 * digitsValue(SubSeq(s, 1, ni), 0)
       + fracCents(SubSeq(s, ni + 2, ni + 1 + (IF nf > 2 THEN 2 ELSE nf)))
fracDigits(s, ni) ==
  IF ni < Len(s) /\ At(s, ni + 1) = "." THEN runLength(In(Digit), s, ni + 2, Inf, FALSE) ELSE 0
floatFrom(s, ni) == floatOf(s, ni, fracDigits(s, ni))
parseFloat(s) == floatFrom(s, runLength(In(Digit), s, 1, Inf, FALSE))

\* Number.prototype.toString of a non-negative integer
RECURSIVE numToString(_)
numToString(n) ==
  IF n < 10 THEN At(Digits, n + 1)
  ELSE numToString(n \div 10) \o At(Digits, (n % 10) + 1)

(***************************************************************************)
(* parseReceiptText: the store name.                                       *)
(***************************************************************************)
WS == Rep(In(Space), 0, Inf)

storePatterns == <<
  Pat(Lit("walmart"), TRUE, 0),
  Pat(Lit("target"), TRUE, 0),
  Pat(Cat(<<Lit("whole"), WS, Lit("foods")>>), TRUE, 0),
  Pat(Lit("kroger"), TRUE, 0),
  Pat(Lit("safeway"), TRUE, 0),
  Pat(Lit("cvs"), TRUE, 0),
  Pat(Lit("walgreens"), TRUE, 0),
  Pat(Lit("starbucks"), TRUE, 0),
  Pat(Lit("mcdonald"), TRUE, 0),
  Pat(Lit("subway"), TRUE, 0),
  Pat(Cat(<<Lit("best"), WS, Lit("buy")>>), TRUE, 0),
  Pat(Cat(<<Lit("home"), WS, Lit("depot")>>), TRUE, 0),
  Pat(Lit("costco"), TRUE, 0),
  Pat(Cat(<<Lit("trader"), WS, Lit("joe")>>), TRUE, 0),
  Pat(Lit("amazon"), TRUE, 0),
  Pat(Cat(<<Lit("apple"), WS, Lit("store")>>), TRUE, 0),
  Pat(Lit("macy"), TRUE, 0),
  Pat(Lit("nordstrom"), TRUE, 0) >>

UnknownStore == "Unknown Store"

\* a variant of capitalize that leaves the match as the text spells it
asMatched(w) == w

\* match[0].charAt(0).toUpperCase() + match[0].slice(1).toLowerCase()
capitalize(w) == UpperCh(At(w, 1)) \o toLowerCase(SubSeq(w, 2, Len(w)))

\* for (const pattern of storePatterns) { ... break }
RECURSIVE knownStore(_, _)
knownOrNext(txt, k, m) == IF m.ok THEN capitalize(m.all) ELSE knownStore(txt, k + 1)
knownStore(txt, k) ==
  IF k > Len(storePatterns) THEN UnknownStore
  ELSE knownOrNext(txt, k, match(txt, storePatterns[k]))

StoreNameChars == Letter \cup Digit \cup Space \cup {"&", "'", "-"}

\* /[^a-zA-Z0-9\s&'-]/g replaced by '', then trim
cleanStoreName(s) == trim(keepChars(s, StoreNameChars))

startsWithDigit == Pat(Cat(<<Bol, In(Digit)>>), FALSE, 0)
onlyDigitsAndSymbols == Pat(Cat(<<Bol, Rep(NotIn(Letter \cup {"_"}), 1, Inf), Eol>>), FALSE, 0)
startsWithDollar == Pat(Cat(<<Bol, In({"$"})>>), FALSE, 0)

lineIsStoreLike(line, lower) ==
  /\ ~test(startsWithDigit, line)
  /\ Len(line) > 2 /\ Len(line) < 50
  /\ ~includes(lower, "receipt")
  /\ ~includes(lower, "tax")
  /\ ~includes(lower, "total")
  /\ ~test(onlyDigitsAndSymbols, line)
  /\ ~test(startsWithDollar, line)
looksLikeStoreName(line) == lineIsStoreLike(line, toLowerCase(line))

\* the loop over the first five lines; i counts from 0 as in the source
RECURSIVE storeFromFirstLines(_, _, _)
takeOrNext(ls, i, nm) == IF Len(nm) > 2 THEN nm ELSE storeFromFirstLines(ls, i + 1, nm)
storeFromFirstLines(ls, i, name) ==
  IF i >= atMost(Len(ls), 5) THEN name
  ELSE IF looksLikeStoreName(ls[i + 1]) THEN takeOrNext(ls, i, cleanStoreName(ls[i + 1]))
  ELSE storeFromFirstLines(ls, i + 1, name)

knownOrFirstLines(known, ls) ==
  IF known = UnknownStore THEN storeFromFirstLines(ls, 0, known) ELSE known
extractStoreName(txt, ls) == knownOrFirstLines(knownStore(txt, 1), ls)

\* text.split('\n').map(line => line.trim()).filter(line => line.length > 0)
nonEmpty(l) == Len(l) > 0
trimAll(raw) == [i \in 1..Len(raw) |-> trim(raw[i])]
splitLines(txt) == SelectSeq(trimAll(split(txt)), nonEmpty)

(***************************************************************************)
(* parseReceiptText: the total amount.                                     *)
(***************************************************************************)
\* ([\d,]+\.?\d*)
LooseAmount(k) ==
  Grp(k, Cat(<<Rep(In(Digit \cup {","}), 1, Inf), Opt(In({"."})), Rep(In(Digit), 0, Inf)>>))

\* ([\d,]+\.\d{2})
TwoDecimals(k) ==
  Grp(k, Cat(<<Rep(In(Digit \cup {","}), 1, Inf), In({"."}), Rep(In(Digit), 2, 2)>>))

\* [:\s]+\$?
Label == Cat(<<Rep(In({":"} \cup Space), 1, Inf), Opt(In({"$"}))>>)
SP == Rep(In(Space), 1, Inf)
\* (?:\s|$)
SpaceOrEnd == Alt(<<In(Space), Eol>>)

totalPatterns == <<
  Pat(Cat(<<Opt(Cat(<<Lit("grand"), SP>>)), Lit("total"), Label, LooseAmount(1)>>), TRUE, 1),
  Pat(Cat(<<Lit("amount"), SP, Lit("due"), Label, LooseAmount(1)>>), TRUE, 1),
  Pat(Cat(<<Lit("balance"), SP, Lit("due"), Label, LooseAmount(1)>>), TRUE, 1),
  Pat(Cat(<<Opt(Lit("sub")), Lit("total"), Label, LooseAmount(1)>>), TRUE, 1),
  Pat(Cat(<<Lit("you"), SP, Lit("pay"), Label, LooseAmount(1)>>), TRUE, 1),
  Pat(Cat(<<Lit("charge"), Label, LooseAmount(1)>>), TRUE, 1),
  Pat(Cat(<<Lit("paid"), Label, LooseAmount(1)>>), TRUE, 1),
  Pat(Cat(<<In({"$"}), WS, TwoDecimals(1), SpaceOrEnd>>), FALSE, 1),
  Pat(Cat(<<Bol, TwoDecimals(1), SpaceOrEnd>>), FALSE, 1) >>

\* amount > 0 && amount < 10000
AmountLimit == 1000000
sane(amount) == amount > 0 /\ amount < AmountLimit

\* line.toLowerCase().includes('total') && !line.toLowerCase().includes('sub')
isLabelled(lower) == includes(lower, "total") /\ ~includes(lower, "sub")
labelledTotal(line) == isLabelled(toLowerCase(line))

\* the inner loop over totalPatterns for the line at index i (from 0):
\* the candidates pushed and the total taken, 0 when none is
RECURSIVE scanLine(_, _, _, _)
pushAmount(line, i, k, pushed, amount) ==
  IF labelledTotal(line) THEN [found |-> pushed, total |-> amount]
  ELSE scanLine(line, i, k + 1, pushed)
checkAmount(line, i, k, found, amount) ==
  IF sane(amount)
  THEN pushAmount(line, i, k, Append(found, [amount |-> amount, line |-> line, index |-> i]),
                  amount)
  ELSE scanLine(line, i, k + 1, found)
checkMatch(line, i, k, found, m) ==
  IF m.ok THEN checkAmount(line, i, k, found, parseFloat(dropChars(m.c[1], {","})))
  ELSE scanLine(line, i, k + 1, found)
scanLine(line, i, k, found) ==
  IF k > Len(totalPatterns) THEN [found |-> found, total |-> 0]
  ELSE checkMatch(line, i, k, found, match(line, totalPatterns[k]))

\* the comparator of foundAmounts.sort; bottomThird = lines.length * 0.66
inBottomThird(index, n) == 100 * index >= 66 * n
compareAmounts(a, b, n) ==
  IF inBottomThird(a.index, n) /\ ~inBottomThird(b.index, n) THEN -1
  ELSE IF inBottomThird(b.index, n) /\ ~inBottomThird(a.index, n) THEN 1
  ELSE b.amount - a.amount

\* Array.prototype.sort: a stable sort (insertion of each element after the
\* elements that do not compare greater)
RECURSIVE insertSorted(_, _, _)
insertSorted(sorted, x, n) ==
  IF Len(sorted) = 0 THEN <<x>>
  ELSE IF compareAmounts(sorted[Len(sorted)], x, n) <= 0 THEN Append(sorted, x)
  ELSE Append(insertSorted(SubSeq(sorted, 1, Len(sorted) - 1), x, n), sorted[Len(sorted)])

RECURSIVE sortAmounts(_, _, _)
sortAmounts(found, k, n) ==
  IF k = 0 THEN <<>> ELSE insertSorted(sortAmounts(found, k - 1, n), found[k], n)

\* variants of heuristicTotal: one that skips the candidates, one that takes
\* the first candidate recorded without sorting
keepZero(total, found, n) == total
firstFound(total, found, n) == IF total = 0 /\ Len(found) > 0 THEN found[1].amount ELSE total
\* a variant of heuristicTotal that sorts by amount alone, as if no line were
\* in the bottom third (no index reaches the length of the line sequence)
largestFound(total, found, n) ==
  IF total = 0 /\ Len(found) > 0 THEN sortAmounts(found, Len(found), 2 * n)[1].amount ELSE total

\* if (totalAmount === 0 && foundAmounts.length > 0) { sort; totalAmount = foundAmounts[0].amount }
heuristicTotal(total, found, n) ==
  IF total = 0 /\ Len(found) > 0 THEN sortAmounts(found, Len(found), n)[1].amount ELSE total

(***************************************************************************)
(* Dates.  A time value is a day number (days since 0001-01-01 of the      *)
(* proleptic Gregorian calendar) at midnight; the runtime's time zone is   *)
(* UTC, as on the edge runtime, so local and UTC dates agree.              *)
(***************************************************************************)
isLeap(y) == (y % 4 = 0 /\ y % 100 # 0) \/ y % 400 = 0
DaysBeforeMonth == <<0, 31, 59, 90, 120, 151, 181, 212, 243, 273, 304, 334>>
daysInMonth(y, m) ==
  IF m = 2 THEN (IF isLeap(y) THEN 29 ELSE 28)
  ELSE IF m \in {4, 6, 9, 11} THEN 30 ELSE 31
daysBeforeYear(y) == 365 * (y - 1) + (y - 1) \div 4 - (y - 1) \div 100 + (y - 1) \div 400

\* MakeDay(year, month, date): a date past the end of the month runs on into
\* the following months
makeDay(y, m, d) ==
  daysBeforeYear(y) + DaysBeforeMonth[m] + (IF m > 2 /\ isLeap(y) THEN 1 ELSE 0) + d

\* the calendar date of a day number
yearOf(n) == CHOOSE yy \in (n \div 366)..(n \div 365 + 1) :
               daysBeforeYear(yy) < n /\ n <= daysBeforeYear(yy + 1)
monthIn(n, y) == CHOOSE mm \in 1..12 :
                   makeDay(y, mm, 1) <= n /\ n < makeDay(y, mm, 1) + daysInMonth(y, mm)
civilIn(n, y, m) == [y |-> y, m |-> m, d |-> n - makeDay(y, m, 1) + 1]
civilOf(n, y) == civilIn(n, y, monthIn(n, y))
civil(n) == civilOf(n, yearOf(n))

pad2(n) == IF n < 10 THEN "0" \o numToString(n) ELSE numToString(n)
pad4(n) == IF n < 10 THEN "000" \o numToString(n)
           ELSE IF n < 100 THEN "00" \o numToString(n)
           ELSE IF n < 1000 THEN "0" \o numToString(n) ELSE numToString(n)

\* d.toISOString().split('T')[0]
isoText(c) == pad4(c.y) \o "-" \o pad2(c.m) \o "-" \o pad2(c.d)
isoDate(n) == isoText(civil(n))

\* The Date constructor on a string (V8's date parser).  Tokens: numbers,
\* words, and single symbols.
MonthNames == <<"jan", "feb", "mar", "apr", "may", "jun",
                "jul", "aug", "sep", "oct", "nov", "dec">>

RECURSIVE dateTokens(_, _)
numToken(s, i, n) ==
  <<[k |-> "num", v |-> digitsValue(SubSeq(s, i, i + n - 1), 0), len |-> n]>>
  \o dateTokens(s, i + n)
wordToken(s, i, n) ==
  <<[k |-> "word", v |-> toLowerCase(SubSeq(s, i, i + n - 1)), len |-> n]>>
  \o dateTokens(s, i + n)
dateTokens(s, i) ==
  IF i > Len(s) THEN <<>>
  ELSE IF At(s, i) \in Digit THEN numToken(s, i, runLength(In(Digit), s, i, Inf, FALSE))
  ELSE IF At(s, i) \in Letter THEN wordToken(s, i, runLength(In(Letter), s, i, Inf, FALSE))
  ELSE IF At(s, i) \in Space
       THEN <<[k |-> "space", v |-> " ", len |-> 1]>>
            \o dateTokens(s, i + runLength(In(Space), s, i, Inf, FALSE))
  ELSE <<[k |-> "sym", v |-> At(s, i), len |-> 1]>> \o dateTokens(s, i + 1)

\* the month a word names: its first three letters decide
monthOf(w) ==
  IF \E m \in 1..12 : SubSeq(w, 1, 3) = MonthNames[m]
  THEN CHOOSE m \in 1..12 : SubSeq(w, 1, 3) = MonthNames[m] ELSE 0

\* the ES5 date-only form YYYY-MM-DD
isoShape == Pat(Cat(<<Bol, Grp(1, Rep(In(Digit), 4, 4)), In({"-"}), Grp(2, Rep(In(Digit), 2, 2)),
                      In({"-"}), Grp(3, Rep(In(Digit), 2, 2)), Eol>>), FALSE, 3)

\* the legacy parser's loop over the tokens: the numbers read into the day
\* composer (at most three), the named month, or failure.  A number takes a
\* following '-' or '.' with it; '/', ',' and white space are skipped; a word
\* that names no month, or a sign or colon, is outside the modelled texts and
\* fails.
RECURSIVE legacyScan(_, _, _, _)
nextIs(toks, j, syms) == j < Len(toks) /\ toks[j + 1].k = "sym" /\ toks[j + 1].v \in syms
afterToken(toks, j, syms) == IF nextIs(toks, j, syms) THEN j + 2 ELSE j + 1
scanFailed(comp, named) == [ok |-> FALSE, comp |-> comp, named |-> named]
scanToken(toks, j, comp, named, t) ==
  CASE t.k = "num" ->
         IF Len(comp) >= 3 THEN scanFailed(comp, named)
         ELSE legacyScan(toks, afterToken(toks, j, {"-", "."}), Append(comp, t.v), named)
    [] t.k = "word" ->
         IF monthOf(t.v) = 0 THEN scanFailed(comp, named)
         ELSE legacyScan(toks, afterToken(toks, j, {"-"}), comp, monthOf(t.v))
    [] t.k = "space" -> legacyScan(toks, j + 1, comp, named)
    [] t.k = "sym" ->
         IF t.v \in {"/", ",", "."} THEN legacyScan(toks, j + 1, comp, named)
         ELSE scanFailed(comp, named)
legacyScan(toks, j, comp, named) ==
  IF j > Len(toks) THEN [ok |-> TRUE, comp |-> comp, named |-> named]
  ELSE scanToken(toks, j, comp, named, toks[j])

isDay(x) == x >= 1 /\ x <= 31
isMonth(x) == x >= 1 /\ x <= 12
\* a year of one or two digits is a year of 2000-2049 or 1950-1999
legacyYear(y) == IF y >= 0 /\ y <= 49 THEN y + 2000 ELSE IF y >= 50 /\ y <= 99 THEN y + 1900 ELSE y

\* DayComposer::Write: which number is the year, the month, the day.  The
\* day is checked against 1..31 only, never against the length of the month.
orderOf(n, c, named, iso) ==
  IF named = 0
  THEN IF iso \/ (n = 3 /\ ~isDay(c[1]))
       THEN [y |-> c[1], m |-> c[2], d |-> c[3]]
       ELSE [y |-> IF n = 3 THEN c[3] ELSE 0, m |-> c[1], d |-> c[2]]
  ELSE IF n = 1 THEN [y |-> 0, m |-> named, d |-> c[1]]
  ELSE IF ~isDay(c[1]) THEN [y |-> c[1], m |-> named, d |-> c[2]]
  ELSE [y |-> c[2], m |-> named, d |-> c[1]]
dayOf(n, ymd, iso) ==
  IF n < 1 \/ ~isMonth(ymd.m) \/ ~isDay(ymd.d) THEN NaN
  ELSE makeDay(IF iso THEN ymd.y ELSE legacyYear(ymd.y), ymd.m, ymd.d)
padded(comp) == [i \in 1..3 |-> IF i <= Len(comp) THEN comp[i] ELSE 1]
composeDay(comp, named, iso) == dayOf(Len(comp), orderOf(Len(comp), padded(comp), named, iso), iso)

\* new Date(dateStr): the time value, or NaN for an Invalid Date
isoDay(iso) ==
  composeDay(<<digitsValue(iso.c[1], 0), digitsValue(iso.c[2], 0), digitsValue(iso.c[3], 0)>>,
             0, TRUE)
legacyDay(scan) == IF scan.ok THEN composeDay(scan.comp, scan.named, FALSE) ELSE NaN
dayFrom(s, iso) ==
  IF iso.ok THEN isoDay(iso) ELSE legacyDay(legacyScan(dateTokens(s, 1), 1, <<>>, 0))
newDate(s) == dayFrom(s, match(s, isoShape))

(***************************************************************************)
(* parseReceiptText: the purchase date.                                    *)
(***************************************************************************)
DateSep == In({"/", "-", "."})
D(min, max) == Rep(In(Digit), min, max)
MonthWord == Cat(<<Alt(<<Lit("jan"), Lit("feb"), Lit("mar"), Lit("apr"), Lit("may"), Lit("jun"),
                        Lit("jul"), Lit("aug"), Lit("sep"), Lit("oct"), Lit("nov"), Lit("dec")>>),
                   Rep(In(LowerSet), 0, Inf)>>)
SpaceComma == Rep(In(Space \cup {","}), 1, Inf)

datePatterns == <<
  Pat(Grp(1, Cat(<<D(1, 2), DateSep, D(1, 2), DateSep, D(2, 4)>>)), FALSE, 1),
  Pat(Grp(1, Cat(<<D(4, 4), DateSep, D(1, 2), DateSep, D(1, 2)>>)), FALSE, 1),
  Pat(Cat(<<MonthWord, SpaceComma, D(1, 2), SpaceComma, D(2, 4)>>), TRUE, 1),
  Pat(Cat(<<D(1, 2), SP, MonthWord, SP, D(2, 4)>>), TRUE, 3),
  Pat(Cat(<<D(1, 2), In({"/", "-"}), D(1, 2), In({"/", "-"}), D(2, 2), SpaceOrEnd>>), FALSE, 3) >>

\* new RegExp(pattern, 'g'): the flags of the copy are exactly 'g', so the
\* copy of a pattern written with the i flag is case-sensitive
withFlagsG(p) == [p EXCEPT !.ci = FALSE]

shortYearShape ==
  Pat(Cat(<<Bol, D(1, 2), In({"/", "-"}), D(1, 2), In({"/", "-"}), D(2, 2), Eol>>), FALSE, 0)

\* MM/DD/YY rewritten with a four-digit year: 00-30 are 20xx, 31-99 are 19xx
fullYear(year) == IF year <= 30 THEN 2000 + year ELSE 1900 + year
withFullYear(dateStr, parts) ==
  SubSeq(dateStr, 1, parts[1].len) \o "/"
  \o SubSeq(dateStr, parts[1].len + 2, parts[1].len + 1 + parts[3].len)
  \o "/" \o numToString(fullYear(parts[5].v))
expandShortYear(dateStr) ==
  IF test(shortYearShape, dateStr) THEN withFullYear(dateStr, dateTokens(dateStr, 1))
  ELSE dateStr

\* new Date(now.getFullYear() - 1, now.getMonth(), now.getDate())
yearBefore(c) == makeDay(c.y - 1, c.m, c.d)
oneYearAgo(now) == yearBefore(civil(now))

\* a candidate is accepted when it parses and lies in [oneYearAgo, now]
accepted(parsedDate, now) ==
  parsedDate # NaN /\ parsedDate <= now /\ parsedDate >= oneYearAgo(now)

\* for (const match of matches) { try { ... break } catch { } }
RECURSIVE firstAccepted(_, _, _)
acceptOrNext(matches, j, now, parsedDate) ==
  IF accepted(parsedDate, now) THEN isoDate(parsedDate) ELSE firstAccepted(matches, j + 1, now)
firstAccepted(matches, j, now) ==
  IF j > Len(matches) THEN ""
  ELSE acceptOrNext(matches, j, now, newDate(expandShortYear(matches[j])))

\* for (const pattern of datePatterns) { ... if (date) break }; "" is null
RECURSIVE extractDate(_, _, _)
foundOrNext(txt, k, now, found) == IF found # "" THEN found ELSE extractDate(txt, k + 1, now)
extractDate(txt, k, now) ==
  IF k > Len(datePatterns) THEN ""
  ELSE foundOrNext(txt, k, now,
                   firstAccepted(matchAll(txt, withFlagsG(datePatterns[k])), 1, now))

\* if (!date) date = new Date().toISOString().split('T')[0]
dateOrToday(date, now) == IF date = "" THEN isoDate(now) ELSE date

(***************************************************************************)
(* categorizeItem, determineReceiptCategory, calculateSustainabilityScore. *)
(***************************************************************************)
Categories == {"Groceries", "Household", "Personal Care", "Electronics",
               "Clothing", "Dining", "Health", "Other"}

\* name.match(/(w1|w2|...)/): some word of the list occurs in the name
matchesAny(name, words) == \E w \in words : includes(name, w)

DiningWords == {"coffee", "tea", "drink", "soda", "juice", "water", "beer", "wine",
                "alcohol", "beverage"}
GroceryWords == {"bread", "milk", "egg", "fruit", "vegetable", "meat", "chicken", "beef",
                 "pork", "fish", "cheese", "yogurt", "cereal", "rice", "pasta", "apple",
                 "banana", "tomato", "lettuce", "onion", "potato", "carrot", "broccoli",
                 "spinach", "organic", "fresh"}
HouseholdWords == {"soap", "detergent", "clean", "tissue", "paper", "towel", "bag", "foil",
                   "wrap", "plate", "cup", "fork", "knife", "spoon", "dish", "laundry",
                   "bleach", "sponge"}
PersonalCareWords == {"shampoo", "toothpaste", "lotion", "deodorant", "soap", "brush", "razor",
                      "makeup", "perfume", "cologne", "lip", "face", "hand", "body", "skin",
                      "hair"}
HealthWords == {"medicine", "vitamin", "pill", "tablet", "capsule", "bandage", "aspirin",
                "tylenol", "advil", "pharmacy", "rx", "prescription"}
ElectronicsWords == {"phone", "computer", "laptop", "tablet", "cable", "charger", "battery",
                     "electronic", "tech", "digital"}
ClothingWords == {"shirt", "pants", "dress", "shoe", "sock", "hat", "jacket", "coat", "jeans",
                  "sweater", "underwear", "bra", "clothing", "apparel"}

\* a variant of categoryOf that tests the household keywords first
householdFirst(name) ==
  IF matchesAny(name, HouseholdWords) THEN "Household"
  ELSE IF matchesAny(name, DiningWords) THEN "Dining"
  ELSE IF matchesAny(name, GroceryWords) THEN "Groceries"
  ELSE IF matchesAny(name, PersonalCareWords) THEN "Personal Care"
  ELSE IF matchesAny(name, HealthWords) THEN "Health"
  ELSE IF matchesAny(name, ElectronicsWords) THEN "Electronics"
  ELSE IF matchesAny(name, ClothingWords) THEN "Clothing"
  ELSE "Other"

categoryOf(name) ==
  IF matchesAny(name, DiningWords) THEN "Dining"
  ELSE IF matchesAny(name, GroceryWords) THEN "Groceries"
  ELSE IF matchesAny(name, HouseholdWords) THEN "Household"
  ELSE IF matchesAny(name, PersonalCareWords) THEN "Personal Care"
  ELSE IF matchesAny(name, HealthWords) THEN "Health"
  ELSE IF matchesAny(name, ElectronicsWords) THEN "Electronics"
  ELSE IF matchesAny(name, ClothingWords) THEN "Clothing"
  ELSE "Other"
categorizeItem(itemName) == categoryOf(toLowerCase(itemName))

\* a variant of HouseholdStores that lists no retailer
NoStores == {}

DiningStores == {"starbucks", "coffee", "restaurant", "cafe", "food"}
GroceryStores == {"whole foods", "grocery", "market", "supermarket", "kroger", "safeway"}
HouseholdStores == {"target", "walmart", "costco"}
ElectronicsStores == {"best buy", "electronic", "apple store"}
ClothingStores == {"macy", "clothing", "fashion", "apparel"}

\* categories.reduce((acc, cat) => { acc[cat] = (acc[cat] || 0) + 1 }, {}):
\* keys holds Object.keys(categoryCount), in order of first insertion
RECURSIVE tally(_, _, _, _)
count1(items, j, keys, count, cat) ==
  IF \E q \in 1..Len(keys) : keys[q] = cat
  THEN tally(items, j + 1, keys, [count EXCEPT ![cat] = @ + 1])
  ELSE tally(items, j + 1, Append(keys, cat), [count EXCEPT ![cat] = 1])
tally(items, j, keys, count) ==
  IF j > Len(items) THEN [keys |-> keys, count |-> count]
  ELSE count1(items, j, keys, count, items[j].category)

\* a variant of reduceKeys that keeps the earlier key when the counts are equal
RECURSIVE keepsEarlier(_, _, _, _)
keepsEarlier(keys, j, a, count) ==
  IF j > Len(keys) THEN a
  ELSE keepsEarlier(keys, j + 1, IF count[a] >= count[keys[j]] THEN a ELSE keys[j], count)

\* keys.reduce((a, b) => categoryCount[a] > categoryCount[b] ? a : b)
RECURSIVE reduceKeys(_, _, _, _)
reduceKeys(keys, j, a, count) ==
  IF j > Len(keys) THEN a
  ELSE reduceKeys(keys, j + 1, IF count[a] > count[keys[j]] THEN a ELSE keys[j], count)

\* reduce of an empty array without an initial value throws a TypeError
TypeError == "TypeError"
maxOf(t) == IF Len(t.keys) = 0 THEN TypeError ELSE reduceKeys(t.keys, 2, t.keys[1], t.count)
majorityCategory(items) == maxOf(tally(items, 1, <<>>, [c \in Categories |-> 0]))

\* variants of storeCategory: one that votes without looking whether there are
\* items, one that lets the items decide before the store name
unguardedCategory(name, items) ==
  IF matchesAny(name, {"starbucks", "coffee", "restaurant", "cafe", "food"}) THEN "Dining"
  ELSE IF matchesAny(name, {"whole foods", "grocery", "market", "supermarket", "kroger",
                            "safeway"}) THEN "Groceries"
  ELSE IF matchesAny(name, {"target", "walmart", "costco"}) THEN "Household"
  ELSE IF matchesAny(name, {"best buy", "electronic", "apple store"}) THEN "Electronics"
  ELSE IF matchesAny(name, {"macy", "clothing", "fashion", "apparel"}) THEN "Clothing"
  ELSE majorityCategory(items)
votesFirst(name, items) ==
  IF Len(items) > 0 THEN majorityCategory(items)
  ELSE IF matchesAny(name, {"starbucks", "coffee", "restaurant", "cafe", "food"}) THEN "Dining"
  ELSE IF matchesAny(name, {"whole foods", "grocery", "market", "supermarket", "kroger",
                            "safeway"}) THEN "Groceries"
  ELSE IF matchesAny(name, {"target", "walmart", "costco"}) THEN "Household"
  ELSE IF matchesAny(name, {"best buy", "electronic", "apple store"}) THEN "Electronics"
  ELSE IF matchesAny(name, {"macy", "clothing", "fashion", "apparel"}) THEN "Clothing"
  ELSE "Other"

storeCategory(name, items) ==
  IF matchesAny(name, DiningStores) THEN "Dining"
  ELSE IF matchesAny(name, GroceryStores) THEN "Groceries"
  ELSE IF matchesAny(name, HouseholdStores) THEN "Household"
  ELSE IF matchesAny(name, ElectronicsStores) THEN "Electronics"
  ELSE IF matchesAny(name, ClothingStores) THEN "Clothing"
  ELSE IF Len(items) > 0 THEN majorityCategory(items)
  ELSE "Other"
determineReceiptCategory(storeName, items) == storeCategory(toLowerCase(storeName), items)

HighWords == {"organic", "eco", "sustainable", "green", "natural", "biodegradable", "fresh",
              "local", "farm", "vegetable", "fruit"}
MediumWords == {"whole", "grain", "natural", "unprocessed", "water", "plant", "herb"}
LowWords == {"plastic", "disposable", "synthetic", "artificial", "processed", "packaged",
             "fast", "instant", "frozen"}
\* /(styrofoam|single.use|non.recyclable|chemical|preservative)/
veryLow == Pat(Alt(<<Lit("styrofoam"), Cat(<<Lit("single"), AnyCh, Lit("use")>>),
                     Cat(<<Lit("non"), AnyCh, Lit("recyclable")>>), Lit("chemical"),
                     Lit("preservative")>>), FALSE, 1)

BaseScore == 50
clamp(lo, hi, x) == IF x < lo THEN lo ELSE IF x > hi THEN hi ELSE x

\* a variant of scoreByName that knows no keyword
flatScore(name) == BaseScore

scoreByName(name) ==
  IF matchesAny(name, HighWords) THEN BaseScore + 35
  ELSE IF matchesAny(name, MediumWords) THEN BaseScore + 15
  ELSE IF matchesAny(name, LowWords) THEN BaseScore - 25
  ELSE IF test(veryLow, name) THEN BaseScore - 35
  ELSE BaseScore
scoreByCategory(cat, score) ==
  IF cat = "Groceries" THEN score + 10
  ELSE IF cat = "Household" THEN score - 5
  ELSE IF cat = "Electronics" THEN score - 15
  ELSE score
itemScore(item) == clamp(0, 100, scoreByCategory(item.category, scoreByName(toLowerCase(item.name))))

RECURSIVE sumScores(_, _)
sumScores(items, j) == IF j > Len(items) THEN 0 ELSE itemScore(items[j]) + sumScores(items, j + 1)

\* Math.round of the non-negative quotient a / b
roundDiv(a, b) == (2 * a + b) \div (2 * b)

\* variants of calculateSustainabilityScore: one without the neutral score of
\* the empty list, one that forgets to average
zeroForEmpty(items) ==
  IF Len(items) = 0 THEN 0 ELSE clamp(0, 100, roundDiv(sumScores(items, 1), Len(items)))
totalOfScores(items) == IF Len(items) = 0 THEN 50 ELSE sumScores(items, 1)

calculateSustainabilityScore(items) ==
  IF Len(items) = 0 THEN 50
  ELSE clamp(0, 100, roundDiv(sumScores(items, 1), Len(items)))

(***************************************************************************)
(* parseReceiptText: the items.                                            *)
(***************************************************************************)
SkipWords == <<"total", "subtotal", "tax", "balance", "change", "payment", "cash", "credit",
               "debit", "receipt", "thank", "you", "store", "address", "phone", "date", "time">>

skipPatterns == <<
  Pat(Cat(<<Bol, Alt([j \in 1..Len(SkipWords) |-> Lit(SkipWords[j])])>>), TRUE, 1),
  Pat(Cat(<<Bol, WS, Eol>>), FALSE, 0),
  Pat(Cat(<<Bol, Rep(In(Digit \cup Space \cup {"-", "/", ":"}), 1, Inf), Eol>>), FALSE, 0),
  Pat(Cat(<<Bol, Rep(In({"#", "*", "-", "="}), 1, Inf), Eol>>), FALSE, 0) >>

\* ([\d,]+\.\d{1,2})
Price(k) == Grp(k, Cat(<<Rep(In(Digit \cup {","}), 1, Inf), In({"."}), D(1, 2)>>))
CapsNameChars == UpperSet \cup Space \cup {"*", "-", "'", "&", "."} \cup Digit
NameChars == Word \cup Space \cup {"-", "'", "&", "."}
AnyName == Grp(1, RepLazy(AnyCh, 1, Inf))

itemPatterns == <<
  Pat(Cat(<<Bol, Grp(1, RepLazy(In(CapsNameChars), 1, Inf)), SP, Price(2), Eol>>), FALSE, 2),
  Pat(Cat(<<Bol, AnyName, SP, In({"$"}), WS, Price(2), Eol>>), FALSE, 2),
  Pat(Cat(<<Bol, AnyName, Rep(In(Space), 2, Inf), Price(2), Eol>>), FALSE, 2),
  Pat(Cat(<<Bol, AnyName, Rep(In({"\t"}), 1, Inf), Price(2), Eol>>), FALSE, 2),
  Pat(Cat(<<Bol, Grp(1, Rep(In(NameChars), 1, Inf)), SP, Grp(2, D(1, Inf)), WS, In({"@"}), WS,
            Opt(In({"$"})), Price(3)>>), FALSE, 3),
  Pat(Cat(<<Bol, Grp(1, Rep(In(NameChars), 1, Inf)), SP, Grp(2, D(1, Inf)), WS, In({"x"}), WS,
            Opt(In({"$"})), Price(3)>>), TRUE, 3),
  Pat(Cat(<<Bol, AnyName, SP, Price(2), WS, Eol>>), FALSE, 2) >>

PriceLimit == 100000
MinNameLength == 2
MaxNameLength == 50
NonItemWords == {"total", "tax", "subtotal", "change", "payment", "cash", "credit", "debit"}
MoreNonItemWords == NonItemWords \cup {"description", "store", "phone", "manager", "served",
                                       "register", "receipt", "time"}
allDigits == Pat(Cat(<<Bol, D(1, Inf), Eol>>), FALSE, 0)

\* name.replace(/[^\w\s\-'&\.]/g, '').trim()
cleanName(s) == trim(keepChars(s, NameChars))

\* a variant of validItem that accepts every match
anyItem(name, price, words) == TRUE

\* the validation of an item, with the words its name must not contain
validItem(name, price, words) ==
  /\ Len(name) >= MinNameLength
  /\ Len(name) <= MaxNameLength
  /\ price > 0
  /\ price <= PriceLimit
  /\ ~test(allDigits, name)
  /\ ~matchesAny(toLowerCase(name), words)

makeItem(name, price, quantity) ==
  [name |-> substring0(name, 100), price |-> price,
   category |-> categorizeItem(name), quantity |-> quantity]

\* what a match of an item pattern gives: match.length is 3 or 4
quantityOf(q) == IF q \in {NaN, 0} THEN 1 ELSE q
timesPrice(name, q, price) == [name |-> name, quantity |-> q, price |-> q * price]
matchedFields(m) ==
  IF m.length = 3
  THEN [name |-> cleanName(trim(m.c[1])), quantity |-> 1,
        price |-> parseFloat(dropChars(m.c[2], {"$", ","}))]
  ELSE timesPrice(cleanName(trim(m.c[1])), quantityOf(parseInt(m.c[2])),
                  parseFloat(dropChars(m.c[3], {"$", ","})))

NoItem == [found |-> FALSE, pattern |-> 0, tried |-> 0]

\* the loop over itemPatterns: the first pattern whose match passes the
\* validation gives the item; a match that fails it lets the loop go on.
\* tried counts the patterns that matched.
RECURSIVE singleLineItem(_, _, _)
\* a variant of validOrNext that gives the line up when its first match fails
\* the validation
firstMatchOnly(line, k, tried, f) ==
  IF validItem(f.name, f.price, NonItemWords)
  THEN [found |-> TRUE, pattern |-> k, tried |-> tried + 1,
        item |-> makeItem(f.name, f.price, f.quantity)]
  ELSE [NoItem EXCEPT !.tried = tried + 1]
validOrNext(line, k, tried, f) ==
  IF validItem(f.name, f.price, NonItemWords)
  THEN [found |-> TRUE, pattern |-> k, tried |-> tried + 1,
        item |-> makeItem(f.name, f.price, f.quantity)]
  ELSE singleLineItem(line, k + 1, tried + 1)
matchOrNext(line, k, tried, m) ==
  IF m.ok THEN validOrNext(line, k, tried, matchedFields(m))
  ELSE singleLineItem(line, k + 1, tried)
singleLineItem(line, k, tried) ==
  IF k > Len(itemPatterns) THEN [NoItem EXCEPT !.tried = tried]
  ELSE matchOrNext(line, k, tried, match(line, itemPatterns[k]))

shouldSkip(line) == \E k \in 1..Len(skipPatterns) : test(skipPatterns[k], line)

itemNamePattern == Pat(Cat(<<Bol, Grp(1, Rep(In(CapsNameChars), 3, 50)), Eol>>), FALSE, 1)
pricePattern == Pat(Cat(<<Bol, Grp(1, Cat(<<D(1, Inf), In({"."}), D(1, 2)>>)), Eol>>), FALSE, 1)

\* the two-line fallback: the name on currentLine, the price on nextLine
itemIfValid(name, price) ==
  IF validItem(name, price, MoreNonItemWords)
  THEN [found |-> TRUE, pattern |-> 0, tried |-> 0, item |-> makeItem(name, price, 1)]
  ELSE NoItem
twoLineItem(currentLine, nextLine) ==
  IF test(itemNamePattern, currentLine) /\ Len(nextLine) > 0 /\ test(pricePattern, nextLine)
  THEN itemIfValid(cleanName(currentLine), parseFloat(nextLine))
  ELSE NoItem

\* items.reduce((sum, item) => sum + item.price, 0)
RECURSIVE sumPrices(_, _)
sumPrices(items, j) == IF j > Len(items) THEN 0 ELSE items[j].price + sumPrices(items, j + 1)

(***************************************************************************)
(* The serve handler's pure parts.                                         *)
(***************************************************************************)
\* a || b on a string and on a number
strOr(v, d) == IF v = "" THEN d ELSE v
numOr(v, d) == IF v = 0 THEN d ELSE v

\* the record the handler takes when the OCR gives no text
defaultData(n) ==
  [storeName |-> UnknownStore, totalAmount |-> 0, date |-> isoDate(n), items |-> <<>>,
   category |-> "Other", currency |-> "USD", rawText |-> ""]

\* a variant of imagePathOf that leaves the user out of the path
sharedPath(u, fileName, n) == strOr(fileName, "receipt-" \o numToString(n) \o ".jpg")

\* `${user.id}/${fileName || `receipt-${Date.now()}.jpg`}`
imagePathOf(u, fileName, n) ==
  u \o "/" \o strOr(fileName, "receipt-" \o numToString(n) \o ".jpg")

\* supabase.storage.from('receipt-images').getPublicUrl(imagePath)
publicUrl(path) == "/storage/v1/object/public/receipt-images/" \o path

receiptData(u, d, path, n) ==
  [user_id |-> u,
   store_name |-> strOr(d.storeName, UnknownStore),
   total_amount |-> numOr(d.totalAmount, 0),
   purchase_date |-> strOr(d.date, isoDate(n)),
   currency |-> strOr(d.currency, "USD"),
   category |-> strOr(d.category, "Other"),
   sustainability_score |-> numToString(calculateSustainabilityScore(d.items)),
   image_url |-> publicUrl(path),
   raw_text |-> d.rawText]

\* the row the insert returns: the data and the generated id
insertedRow(data, id) == [id |-> id] @@ data

itemRows(its, receiptId) ==
  [j \in 1..Len(its) |->
     [receipt_id |-> receiptId,
      item_name |-> its[j].name,
      category |-> strOr(its[j].category, "Other"),
      price |-> numOr(its[j].price, 0),
      quantity |-> numOr(its[j].quantity, 1)]]

errorResponse(message) == [status |-> 500, error |-> message]

successResponse(receipt, d) ==
  [status |-> 200, success |-> TRUE, receipt_id |-> receipt.id,
   receipt |-> [id |-> receipt.id, store_name |-> receipt.store_name,
                total_amount |-> receipt.total_amount,
                purchase_date |-> receipt.purchase_date, category |-> receipt.category,
                sustainability_score |-> receipt.sustainability_score,
                image_url |-> receipt.image_url],
   items |-> d.items, extracted_data |-> d]

(***************************************************************************)
(* The texts, dates, requests and item lists the program is run on.        *)
(***************************************************************************)
MaxLines == 3
MaxDateLines == 2
MaxItems == 2
MaxCalls == 3

\* raw lines of a receipt, before trimming
ReceiptLines == {"WALMART", "MILK 3.50", "TOTAL: 5.50", "APPLES $2.00", "SOAP $1.00"}

\* lines that carry dates, valid and not, and the days the parser runs on
DateLines == {"11/06/2025", "02/30/2026", "13/45/2024", "3/1/26", "11/07/2026", "11/05/2025"}
Today == makeDay(2026, 11, 6)
Todays == {Today, makeDay(2024, 11, 6)}

ScenarioTexts == {"WALMART\nMILK 3.50\nBREAD 2.00\nTOTAL: 5.50",
                  "ACME\nRICE 10.00\nTEA 2.34",
                  "TV 1200.00\nA 1.00\n77 1.00\nItem 2 @ 3.99\nSOAP  $2.50",
                  "JOES MARKET\nSOAP 1.00\nSOAP 2.00\nMILK 3.50",
                  "TOTAL: 9.99\nMILK 3.50\nTOTAL 7.00\nSUBTOTAL 4.00\nSALES TAX 0.40",
                  "BANANAS\n1.29\n12.34\nPAPER TOWEL\n4.00",
                  "  \n MILK 3.50 \n\n",
                  "ORGANIC APPLES 3.00\nSTYROFOAM PHONE 9.00",
                  "COFFEE 3.00\nSOAP 1.00\nSHIRT 9.00\nSOCKS 2.00",
                  "WHOLE FOODS MARKET\nMILK 3.50", "Best  Buy", "TARGET\nWALMART",
                  "A..", "___\n1.29",
                  "TV 2 @ 600.00", "Item 2 @ $3.99\nItem 2 x $3.99",
                  "BIG MANAGER\n1.29\nMILK 3.50"}

DateScenarios == {"2026-01-05", "jan 5, 2026", "Jan 5, 2026", "5 JAN 2026", "BANANAS",
                  "2025-12-01 11/06/2025",
                  "2026-02-30\n11/06/2025", "13/45/2024\n11/06/2023"}

RECURSIVE join(_)
join(ls) == IF Len(ls) = 0 THEN ""
            ELSE IF Len(ls) = 1 THEN ls[1]
            ELSE ls[1] \o "\n" \o join(Tail(ls))

textsOf(catalogue, n) == {join(ls) : ls \in UNION {[1..k -> catalogue] : k \in 0..n}}

ReceiptTexts == textsOf(ReceiptLines, MaxLines) \cup ScenarioTexts
DateTexts == textsOf(DateLines, MaxDateLines) \cup DateScenarios

\* the texts of the calls of parseReceiptText that follow one another
AgainTexts == {"WALMART\nMILK 3.50\nBREAD 2.00\nTOTAL: 5.50", "ACME\nRICE 10.00\nTEA 2.34"}

\* what the OCR reads from the image of a request
OcrTexts == {"", " \n ", "BANANAS", "WALMART\nMILK 3.50\nBREAD 2.00\nTOTAL: 5.50",
             "ACME\nRICE 10.00\nTEA 2.34"}
Users == {"user-1", "user-2"}
FileNames == {"r.jpg", ""}

\* the item lists the scorer is run on
ScoreNames == {"ORGANIC APPLES", "APPLES", "WHOLE GRAIN BREAD", "PLASTIC BAG",
               "STYROFOAM PHONE"}
ScoreCategories == {"Groceries", "Household", "Electronics", "Other"}
ScoreItems == {[name |-> n, price |-> 300, category |-> c, quantity |-> 1] :
                 n \in ScoreNames, c \in ScoreCategories}
ItemLists == UNION {[1..k -> ScoreItems] : k \in 0..MaxItems}

\* the names categorizeItem is run on: a name for each group of keywords, names
\* with keywords of several groups, names with none
ClassifyNames == {"ORGANIC APPLES", "APPLES", "COFFEE CUP", "ORGANIC TEA", "SOAP", "Hand Soap",
                  "TABLET", "SHAMPOO", "VITAMIN", "LAPTOP", "SHIRT", "PAPER TOWEL", "STEAK",
                  "XYZ", "GIFT CARD"}

(***************************************************************************)
(* The program as a state machine.  parseReceiptText: one action for each  *)
(* of its phases, one step for each turn of its two loops over the lines.  *)
(* The serve handler: one action for each of its awaited steps.            *)
(***************************************************************************)
VARIABLES
  text,          \* the argument of parseReceiptText
  now,           \* the clock: the current day
  pc,            \* where the call of parseReceiptText is
  lines,         \* the trimmed, non-empty lines
  storeName,
  totalAmount,
  foundAmounts,
  ti,            \* the index i of the loop over the lines for the total
  date,          \* "" for null
  items,
  ii,            \* the index i of the loop over the lines for the items
  category,
  result,        \* the returned object
  score,         \* what calculateSustainabilityScore returned
  returned,      \* the calls of parseReceiptText that returned before: text, day, result
  hpc,           \* where the request handler is
  method,        \* req.method
  user,          \* user.id, "" before authentication
  imagePath,
  uploaded,      \* the paths of the objects in the bucket receipt-images
  ocr,           \* what the Vision API answered
  fullText,
  extractedData,
  receipts,      \* the rows of the table receipts
  receiptItems,  \* the rows of the table receipt_items
  response,
  hook,          \* the state of useReceipts in the browser, and its calls in flight
  modal,         \* the state of ReceiptDetailModal
  db             \* the database as the migrations and the uploads leave it

parserVars == <<text, now, pc, lines, storeName, totalAmount, foundAmounts, ti, date, items, ii,
                category, result>>
handlerVars == <<hpc, method, user, imagePath, uploaded, ocr, fullText, extractedData, receipts,
                 receiptItems, response>>
appVars == <<hook, modal, db>>
vars == <<parserVars, score, returned, handlerVars, appVars>>

NoResult == [storeName |-> "", totalAmount |-> 0, date |-> "", items |-> <<>>,
             category |-> "", currency |-> "", rawText |-> ""]
NoResponse == [status |-> 0]
NoScore == -1

\* the state useReceipts is constructed with, the user being u ("" for null):
\* useState([]), useState(true), useState(false); no call has been made
newHook(u) ==
  [mounted |-> FALSE, user |-> u, receipts |-> <<>>, loading |-> TRUE, processing |-> FALSE,
   fetches |-> <<>>, calls |-> <<>>, thrown |-> ""]
NoHook == newHook("")

\* the state ReceiptDetailModal is constructed with: useState([]), useState(false);
\* mounted is whether the component is on the page
NoModal == [mounted |-> FALSE, isOpen |-> FALSE, items |-> <<>>, loadingItems |-> FALSE,
            dirty |-> FALSE, effect |-> FALSE, requests |-> <<>>]

\* the database after the first migration: the tables receipts and receipt_items,
\* empty; caller, user_uuid and spending are the last call of
\* get_user_category_spending and its answer
NoDb == [migrated |-> FALSE, receipts |-> <<>>, receipt_items |-> <<>>, categories |-> <<>>,
         caller |-> "", user_uuid |-> "", spending |-> {}]

\* nothing runs in the browser and there is no separate database
appIdle == hook = NoHook /\ modal = NoModal /\ db = NoDb

\* the locals of parseReceiptText as a call on t starts at p
parseFrom(t, p) ==
  /\ text = t
  /\ pc = p
  /\ lines = <<>>
  /\ storeName = UnknownStore
  /\ totalAmount = 0
  /\ foundAmounts = <<>>
  /\ ti = 0
  /\ date = ""
  /\ ii = 0
  /\ category = ""
  /\ result = NoResult

\* no request is being handled
handlerAt(h, m) ==
  /\ hpc = h
  /\ method = m
  /\ user = ""
  /\ imagePath = ""
  /\ uploaded = {}
  /\ ocr = "none"
  /\ fullText = ""
  /\ extractedData = NoResult
  /\ receipts = <<>>
  /\ receiptItems = <<>>
  /\ response = NoResponse

\* a call of parseReceiptText on t on the day n
parseStart(t, n) ==
  parseFrom(t, "split") /\ now = n /\ items = <<>> /\ score = NoScore /\ returned = <<>>
  /\ appIdle /\ handlerAt("direct", "")

\* a request arrives
requestStart(m) ==
  parseFrom("", "idle") /\ now = Today /\ items = <<>> /\ score = NoScore /\ returned = <<>>
  /\ appIdle /\ handlerAt("request", m)

Init ==
  \/ \E t \in ReceiptTexts : parseStart(t, Today)
  \/ \E t \in DateTexts, n \in Todays : parseStart(t, n)
  \/ \E m \in {"OPTIONS", "POST"} : requestStart(m)

SplitLines ==
  /\ pc = "split"
  /\ lines' = splitLines(text)
  /\ pc' = "store"
  /\ UNCHANGED <<text, now, storeName, totalAmount, foundAmounts, ti, date, items, ii,
                 category, result, score, returned, handlerVars, appVars>>

ExtractStoreName ==
  /\ pc = "store"
  /\ storeName' = extractStoreName(text, lines)
  /\ ti' = Len(lines) - 1
  /\ pc' = "total"
  /\ UNCHANGED <<text, now, lines, totalAmount, foundAmounts, date, items, ii, category, result,
                 score, returned, handlerVars, appVars>>

\* one turn of: for (let i = lines.length - 1; i >= 0; i--)
ScanTotalLine ==
  /\ pc = "total"
  /\ ti >= 0
  /\ \E r \in {scanLine(lines[ti + 1], ti, 1, foundAmounts)} :
       /\ foundAmounts' = r.found
       /\ totalAmount' = r.total
       /\ IF r.total > 0 THEN pc' = "pick" /\ ti' = ti
                         ELSE pc' = pc /\ ti' = ti - 1
  /\ UNCHANGED <<text, now, lines, storeName, date, items, ii, category, result, score, returned,
                 handlerVars, appVars>>

\* after the loop: the heuristic choice among the candidates
PickTotal ==
  /\ \/ pc = "total" /\ ti < 0
     \/ pc = "pick"
  /\ totalAmount' = heuristicTotal(totalAmount, foundAmounts, Len(lines))
  /\ pc' = "date"
  /\ UNCHANGED <<text, now, lines, storeName, foundAmounts, ti, date, items, ii, category,
                 result, score, returned, handlerVars, appVars>>

ExtractDate ==
  /\ pc = "date"
  /\ date' = dateOrToday(extractDate(text, 1, now), now)
  /\ pc' = "items"
  /\ UNCHANGED <<text, now, lines, storeName, totalAmount, foundAmounts, ti, items, ii,
                 category, result, score, returned, handlerVars, appVars>>

\* the body of: for (let i = 0; i < lines.length; i++), for the line at ii
singleOrTwoLine(ls, i, line, single) ==
  IF single.found THEN single
  ELSE IF i < Len(ls) - 1 THEN twoLineItem(line, trim(ls[i + 2]))
  ELSE NoItem
itemOn(ls, i, line) ==
  IF Len(line) = 0 \/ shouldSkip(line) THEN NoItem
  ELSE singleOrTwoLine(ls, i, line, singleLineItem(line, 1, 0))
itemAt(ls, i) == itemOn(ls, i, trim(ls[i + 1]))

\* a variant of advance that never skips the line of the price
oneLine(i, r) == i + 1

\* the i++ of the loop, after the i++ of a two-line item
advance(i, r) == IF r.found /\ r.pattern = 0 THEN i + 2 ELSE i + 1

ItemStep ==
  /\ pc = "items"
  /\ ii < Len(lines)
  /\ \E r \in {itemAt(lines, ii)} :
       /\ items' = IF r.found THEN Append(items, r.item) ELSE items
       /\ ii' = advance(ii, r)
  /\ UNCHANGED <<text, now, pc, lines, storeName, totalAmount, foundAmounts, ti, date,
                 category, result, score, returned, handlerVars, appVars>>

\* determineReceiptCategory(storeName, items); an exception leaves the call
Categorize ==
  /\ pc = "items"
  /\ ii >= Len(lines)
  /\ category' = determineReceiptCategory(storeName, items)
  /\ pc' = IF category' = TypeError THEN "raised" ELSE "return"
  /\ UNCHANGED <<text, now, lines, storeName, totalAmount, foundAmounts, ti, date, items, ii,
                 result, score, returned, handlerVars, appVars>>

\* a variant of itemSumTotal that never falls back on the items
keepTotal(total, its) == total

\* the item-sum fallback and the returned object
itemSumTotal(total, its) == IF total = 0 /\ Len(its) > 0 THEN sumPrices(its, 1) ELSE total

Return ==
  /\ pc = "return"
  /\ totalAmount' = itemSumTotal(totalAmount, items)
  /\ result' = [storeName |-> substring0(cleanStoreName(storeName), 100),
                totalAmount |-> totalAmount',
                date |-> date,
                items |-> items,
                category |-> category,
                currency |-> "USD",
                rawText |-> substring0(text, 5000)]
  /\ pc' = "done"
  /\ UNCHANGED <<text, now, lines, storeName, foundAmounts, ti, date, items, ii, category,
                 score, returned, handlerVars, appVars>>

\* a variant of freshItems that keeps the items of the call before
keptItems(its) == its

\* const items = []: every call has its own list
freshItems(its) == <<>>

\* the caller calls parseReceiptText again, on the same text or on another:
\* every local of the function is created anew, nothing outlives a call
CallAgain ==
  /\ hpc = "direct"
  /\ pc = "done"
  /\ text \in AgainTexts
  /\ Len(returned) < MaxCalls - 1
  /\ returned' = Append(returned, [text |-> text, now |-> now, result |-> result])
  /\ \E t \in AgainTexts : text' = t
  /\ pc' = "split"
  /\ lines' = <<>>
  /\ storeName' = UnknownStore
  /\ totalAmount' = 0
  /\ foundAmounts' = <<>>
  /\ ti' = 0
  /\ date' = ""
  /\ items' = freshItems(items)
  /\ ii' = 0
  /\ category' = ""
  /\ result' = NoResult
  /\ UNCHANGED <<now, score, handlerVars, appVars>>

\* the catch of the handler: every error becomes a response of status 500
fail(message) ==
  /\ response' = errorResponse(message)
  /\ hpc' = "done"

\* if (req.method === 'OPTIONS') return new Response(null, ...)
Preflight ==
  /\ hpc = "request"
  /\ method = "OPTIONS"
  /\ response' = [status |-> 200]
  /\ hpc' = "done"
  /\ UNCHANGED <<parserVars, score, returned, method, user, imagePath, uploaded, ocr, fullText,
                 extractedData, receipts, receiptItems, appVars>>

\* the Authorization header and supabase.auth.getUser
Authenticate ==
  /\ hpc = "request"
  /\ method # "OPTIONS"
  /\ \/ fail("No authorization header") /\ UNCHANGED user
     \/ fail("Unauthorized") /\ UNCHANGED user
     \/ \E u \in Users : user' = u /\ hpc' = "body" /\ UNCHANGED response
  /\ UNCHANGED <<parserVars, score, returned, method, imagePath, uploaded, ocr, fullText, extractedData,
                 receipts, receiptItems, appVars>>

\* req.text(), JSON.parse, and the destructuring of imageBase64 and fileName
ReadBody ==
  /\ hpc = "body"
  /\ \/ fail("Invalid JSON in request body") /\ UNCHANGED imagePath
     \/ fail("No image provided") /\ UNCHANGED imagePath
     \/ \E f \in FileNames :
          /\ imagePath' = imagePathOf(user, f, now)
          /\ hpc' = "upload"
          /\ UNCHANGED response
  /\ UNCHANGED <<parserVars, score, returned, method, user, uploaded, ocr, fullText, extractedData,
                 receipts, receiptItems, appVars>>

\* supabase.storage.from('receipt-images').upload(imagePath, ..., {upsert: true})
UploadImage ==
  /\ hpc = "upload"
  /\ \/ fail("Failed to upload image") /\ UNCHANGED uploaded
     \/ uploaded' = uploaded \cup {imagePath} /\ hpc' = "vision" /\ UNCHANGED response
  /\ UNCHANGED <<parserVars, score, returned, method, user, imagePath, ocr, fullText, extractedData,
                 receipts, receiptItems, appVars>>

\* the failures of the Vision API call: no key, an HTTP error, an error in the answer
VisionFails ==
  /\ hpc = "vision"
  /\ \/ fail("Google Vision API key not configured")
     \/ fail("Vision API error")
  /\ ocr' = "error"
  /\ UNCHANGED <<parserVars, score, returned, method, user, imagePath, uploaded, fullText, extractedData,
                 receipts, receiptItems, appVars>>

\* the answer holds no textAnnotations, or a text that is empty once trimmed
VisionReadsNothing ==
  /\ hpc = "vision"
  /\ \/ ocr' = "noAnnotations" /\ fullText' = ""
     \/ \E t \in OcrTexts : trim(t) = "" /\ ocr' = "text" /\ fullText' = t
  /\ extractedData' = defaultData(now)
  /\ hpc' = "receipt"
  /\ UNCHANGED <<parserVars, score, returned, method, user, imagePath, uploaded, receipts, receiptItems,
                 response, appVars>>

\* extractedData = parseReceiptText(fullText): the call starts
VisionReadsText ==
  /\ hpc = "vision"
  /\ \E t \in OcrTexts :
       /\ trim(t) # ""
       /\ ocr' = "text"
       /\ fullText' = t
       /\ text' = t
  /\ pc' = "split"
  /\ hpc' = "parsing"
  /\ UNCHANGED <<now, lines, storeName, totalAmount, foundAmounts, ti, date, items, ii, category,
                 result, score, returned, method, user, imagePath, uploaded, extractedData,
                 receipts,
                 receiptItems, response, appVars>>

\* the call returns, or its exception reaches the catch of the handler
ParserReturns ==
  /\ hpc = "parsing"
  /\ pc \in {"done", "raised"}
  /\ IF pc = "done"
     THEN extractedData' = result /\ hpc' = "receipt" /\ UNCHANGED response
     ELSE fail(TypeError) /\ UNCHANGED extractedData
  /\ UNCHANGED <<parserVars, score, returned, method, user, imagePath, uploaded, ocr, fullText, receipts,
                 receiptItems, appVars>>

\* supabase.from('receipts').insert(receiptData).select().single()
InsertReceipt ==
  /\ hpc = "receipt"
  /\ \/ fail("Failed to create receipt") /\ UNCHANGED receipts
     \/ /\ receipts' = Append(receipts,
                              insertedRow(receiptData(user, extractedData, imagePath, now),
                                          Len(receipts) + 1))
        /\ hpc' = "items"
        /\ UNCHANGED response
  /\ UNCHANGED <<parserVars, score, returned, method, user, imagePath, uploaded, ocr, fullText,
                 extractedData, receiptItems, appVars>>

\* supabase.from('receipt_items').insert(items): an error is logged, no more
InsertItems ==
  /\ hpc = "items"
  /\ \/ UNCHANGED receiptItems
     \/ /\ Len(extractedData.items) > 0
        /\ receiptItems' = receiptItems
                           \o itemRows(extractedData.items, receipts[Len(receipts)].id)
  /\ hpc' = "respond"
  /\ UNCHANGED <<parserVars, score, returned, method, user, imagePath, uploaded, ocr, fullText,
                 extractedData, receipts, response, appVars>>

Respond ==
  /\ hpc = "respond"
  /\ response' = successResponse(receipts[Len(receipts)], extractedData)
  /\ hpc' = "done"
  /\ UNCHANGED <<parserVars, score, returned, method, user, imagePath, uploaded, ocr, fullText,
                 extractedData, receipts, receiptItems, appVars>>

Next ==
  \/ SplitLines
  \/ ExtractStoreName
  \/ ScanTotalLine
  \/ PickTotal
  \/ ExtractDate
  \/ ItemStep
  \/ Categorize
  \/ Return
  \/ CallAgain
  \/ Preflight
  \/ Authenticate
  \/ ReadBody
  \/ UploadImage
  \/ VisionFails
  \/ VisionReadsNothing
  \/ VisionReadsText
  \/ ParserReturns
  \/ InsertReceipt
  \/ InsertItems
  \/ Respond

Spec == Init /\ [][Next]_vars

(***************************************************************************)
(* calculateSustainabilityScore on its own: a call on each item list.      *)
(***************************************************************************)
scoreStart(its) ==
  parseFrom("", "score") /\ now = Today /\ items = its /\ score = NoScore /\ returned = <<>>
  /\ appIdle /\ handlerAt("direct", "")

\* an item of the name n is about to be pushed: categorizeItem has not run yet
classifyStart(n) ==
  parseFrom("", "classify") /\ now = Today /\ score = NoScore /\ returned = <<>>
  /\ appIdle /\ handlerAt("direct", "")
  /\ items = <<[name |-> n, price |-> 300, category |-> "", quantity |-> 1]>>

InitScore ==
  \/ \E its \in ItemLists : scoreStart(its)
  \/ \E n \in ClassifyNames : classifyStart(n)

\* items.push({name, price, category: categorizeItem(name), quantity})
Classify ==
  /\ pc = "classify"
  /\ items' = <<makeItem(items[1].name, items[1].price, items[1].quantity)>>
  /\ pc' = "classified"
  /\ UNCHANGED <<text, now, lines, storeName, totalAmount, foundAmounts, ti, date, ii,
                 category, result, score, returned, handlerVars, appVars>>

\* calculateSustainabilityScore(extractedData.items), on a list as given or as classified
Score ==
  /\ pc \in {"score", "classified"}
  /\ score' = calculateSustainabilityScore(items)
  /\ pc' = "scored"
  /\ UNCHANGED <<text, now, lines, storeName, totalAmount, foundAmounts, ti, date, items, ii,
                 category, result, returned, handlerVars, appVars>>

NextScore ==
  \/ Classify
  \/ Score

SpecScore == InitScore /\ [][NextScore]_vars

(***************************************************************************)
(* Properties of parseReceiptText: the total.                              *)
(***************************************************************************)
\* the largest amount among the candidates at the positions js
largestAt(found, js) == CHOOSE a \in {found[j].amount : j \in js} :
                          \A j \in js : found[j].amount <= a
\* the candidates on a line of the bottom third of the n lines
bottomOnes(found, n) == {j \in 1..Len(found) : 100 * found[j].index >= 66 * n}
\* the heuristic pick: the largest candidate of the bottom third if there is
\* one there, and the largest candidate otherwise
pickAmount(found, n) ==
  IF bottomOnes(found, n) # {} THEN largestAt(found, bottomOnes(found, n))
  ELSE largestAt(found, 1..Len(found))

\* a line carries an amount when a total pattern matches it with an amount in (0, 10000)
carriesAmount(line) == Len(scanLine(line, 0, 1, <<>>).found) > 0
firstAmount(line) == scanLine(line, 0, 1, <<>>).found[1].amount
\* the positions (from 1) of the lines labelled as a total that carry an amount
totalLines(ls) == {i \in 1..Len(ls) : labelledTotal(ls[i]) /\ carriesAmount(ls[i])}
lowest(rows) == CHOOSE i \in rows : \A j \in rows : j <= i

\* C1: the total returned is never negative, and when the scan for the total
\* recorded no amount at all while items were extracted, it is the sum of the
\* prices of the items.
C1_TotalIsItemSum ==
  pc = "done" =>
    /\ result.totalAmount >= 0
    /\ (Len(foundAmounts) = 0 /\ Len(result.items) > 0
          => result.totalAmount = sumPrices(result.items, 1))

C1_Witness ==
  /\ pc = "done"
  /\ Len(foundAmounts) = 0
  /\ Len(result.items) = 2
  /\ result.totalAmount = 1234

\* C2: the total follows four levels in order: the amount of the bottom-most
\* line labelled as a total that carries an amount (no line above it is
\* examined); else the heuristic pick among the recorded candidates; else the
\* sum of the item prices; else 0.
C2_TotalPrecedence ==
  pc = "done" =>
    IF totalLines(lines) # {}
    THEN /\ result.totalAmount = firstAmount(lines[lowest(totalLines(lines))])
         /\ \A j \in 1..Len(foundAmounts) :
              foundAmounts[j].index + 1 >= lowest(totalLines(lines))
    ELSE IF Len(foundAmounts) > 0
         THEN result.totalAmount = pickAmount(foundAmounts, Len(lines))
    ELSE IF Len(result.items) > 0 THEN result.totalAmount = sumPrices(result.items, 1)
    ELSE result.totalAmount = 0

C2_Witness ==
  /\ pc = "done"
  /\ Cardinality(totalLines(lines)) = 2
  /\ Len(foundAmounts) = 3
  /\ result.totalAmount = 700

\* no line of the text is labelled as a total
noTotalLine(ls) == \A i \in 1..Len(ls) : ~labelledTotal(ls[i])

\* C3: for a text with no line labelled as a total from which an item is
\* extracted, the total is the sum of the item prices when no line gave a
\* candidate amount, and the heuristic pick among the candidates when one did
\* (an item line with a '$' before its price, a line starting with an amount).
C3_NoTotalLine ==
  pc = "done" /\ noTotalLine(lines) /\ Len(result.items) > 0 =>
    IF Len(foundAmounts) = 0 THEN result.totalAmount = sumPrices(result.items, 1)
    ELSE result.totalAmount = pickAmount(foundAmounts, Len(lines))

C3_Witness ==
  /\ pc = "done"
  /\ noTotalLine(lines)
  /\ Len(result.items) > 0
  /\ Len(foundAmounts) > 0
  /\ result.totalAmount # sumPrices(result.items, 1)

\* C3 as stated: with no line labelled as a total and an item extracted, the
\* total is the sum of the item prices whatever the form of the item lines.
C3_AlwaysItemSum ==
  pc = "done" /\ noTotalLine(lines) /\ Len(result.items) > 0 =>
    result.totalAmount = sumPrices(result.items, 1)

(***************************************************************************)
(* Properties of parseReceiptText: the date.                               *)
(***************************************************************************)
\* the numbers a date text is composed of, as the Date constructor reads them
partsOf(s, iso) ==
  IF iso.ok
  THEN [ok |-> TRUE, named |-> 0, iso |-> TRUE,
        comp |-> <<digitsValue(iso.c[1], 0), digitsValue(iso.c[2], 0), digitsValue(iso.c[3], 0)>>]
  ELSE [iso |-> FALSE] @@ legacyScan(dateTokens(s, 1), 1, <<>>, 0)
\* the day exists in its month
fitsMonth(n, ymd, iso) ==
  /\ n >= 1
  /\ isMonth(ymd.m)
  /\ ymd.d >= 1
  /\ ymd.d <= daysInMonth(IF iso THEN ymd.y ELSE legacyYear(ymd.y), ymd.m)
partsFit(p) ==
  p.ok /\ fitsMonth(Len(p.comp), orderOf(Len(p.comp), padded(p.comp), p.named, p.iso), p.iso)
\* the text names a date of the calendar
isCalendarDate(s) == partsFit(partsOf(s, match(s, isoShape)))

\* every text a date pattern matches in the text
dateCandidates(txt) ==
  UNION {{matchAll(txt, withFlagsG(datePatterns[k]))[j] :
            j \in 1..Len(matchAll(txt, withFlagsG(datePatterns[k])))} :
         k \in 1..Len(datePatterns)}
within365(c, n) ==
  /\ isCalendarDate(expandShortYear(c))
  /\ newDate(expandShortYear(c)) >= n - 365
  /\ newDate(expandShortYear(c)) <= n

\* C4: the date returned is a date of the calendar between today - 365 days
\* and today, and it is today when no candidate in the text is a date of the
\* calendar in that range.
C4_DateWithin365Days ==
  pc = "done" =>
    /\ isCalendarDate(result.date)
    /\ newDate(result.date) >= now - 365
    /\ newDate(result.date) <= now
    /\ ((\A c \in dateCandidates(text) : ~within365(c, now)) => result.date = isoDate(now))

(***************************************************************************)
(* Properties of parseReceiptText: the items and the category.             *)
(***************************************************************************)
\* C5: every item extracted has a category of the fixed set, a price in
\* (0, 1000], a whole quantity of at least 1, a name of 2 to 50 characters
\* that is not only digits and holds none of the words total, tax, subtotal,
\* change, payment, cash, credit, debit.
C5_ItemsAreValid ==
  \A j \in 1..Len(items) :
    /\ items[j].category \in {"Groceries", "Household", "Personal Care", "Electronics",
                              "Clothing", "Dining", "Health", "Other"}
    /\ items[j].price > 0
    /\ items[j].price <= 100000
    /\ items[j].quantity \in Nat
    /\ items[j].quantity >= 1
    /\ Len(items[j].name) >= 2
    /\ Len(items[j].name) <= 50
    /\ \E q \in 1..Len(items[j].name) : At(items[j].name, q) \notin Digit
    /\ \A w \in {"total", "tax", "subtotal", "change", "payment", "cash", "credit", "debit"} :
         ~includes(toLowerCase(items[j].name), w)

C5_Witness ==
  /\ pc = "done"
  /\ \E j \in 1..Len(items) : items[j].quantity = 2 /\ items[j].price = 798
  /\ \E j \in 1..Len(items) : items[j].name = "SOAP"

WalmartText == "WALMART\nMILK 3.50\nBREAD 2.00\nTOTAL: 5.50"
WalmartItems == <<[name |-> "MILK", price |-> 350, category |-> "Groceries", quantity |-> 1],
                  [name |-> "BREAD", price |-> 200, category |-> "Groceries", quantity |-> 1]>>

\* C6: the text WALMART / MILK 3.50 / BREAD 2.00 / TOTAL: 5.50 gives the store
\* Walmart, the items MILK 3.50 and BREAD 2.00, both Groceries, in that
\* order, the total 5.50, and the category Household (the store decides it).
C6_WalmartScenario ==
  pc = "done" /\ text = WalmartText =>
    /\ result.storeName = "Walmart"
    /\ result.items = WalmartItems
    /\ result.totalAmount = 550
    /\ result.category = "Household"

C6_Witness ==
  /\ pc = "done"
  /\ hpc = "direct"
  /\ text = WalmartText
  /\ result.category = "Household"

\* C6 as stated: the same, with the category Groceries
C6_CategoryGroceries ==
  pc = "done" /\ text = WalmartText =>
    /\ result.storeName = "Walmart"
    /\ result.items = WalmartItems
    /\ result.totalAmount = 550
    /\ result.category = "Groceries"

\* the record of a text in which nothing is read
isDefault(d, n) ==
  /\ d.storeName = "Unknown Store"
  /\ d.totalAmount = 0
  /\ d.date = isoDate(n)
  /\ d.items = <<>>
  /\ d.category = "Other"

\* C7: parseReceiptText never raises, and for an empty text, or an OCR
\* answer with no annotations or no text, the record is Unknown Store, 0,
\* today, no items, Other.
C7_NeverRaisesAndDefaults ==
  /\ pc # "raised"
  /\ (pc = "done" /\ trim(text) = "" => isDefault(result, now))
  /\ (hpc \in {"receipt", "items", "respond", "done"}
      /\ (ocr = "noAnnotations" \/ (ocr = "text" /\ trim(fullText) = ""))
        => isDefault(extractedData, now))

C7_Witness ==
  /\ hpc = "receipt"
  /\ ocr = "text"
  /\ fullText = " \n "
  /\ isDefault(extractedData, now)

\* the categories that list a word the store name holds
StoreKeywords == {[cat |-> "Dining", words |-> {"starbucks", "coffee", "restaurant", "cafe", "food"}],
                  [cat |-> "Groceries", words |-> {"whole foods", "grocery", "market",
                                                   "supermarket", "kroger", "safeway"}],
                  [cat |-> "Household", words |-> {"target", "walmart", "costco"}],
                  [cat |-> "Electronics", words |-> {"best buy", "electronic", "apple store"}],
                  [cat |-> "Clothing", words |-> {"macy", "clothing", "fashion", "apparel"}]}
keywordCategories(name) ==
  {k.cat : k \in {x \in StoreKeywords : \E w \in x.words : includes(name, w)}}
countOf(its, c) == Cardinality({j \in 1..Len(its) : its[j].category = c})

\* C8: the category of the receipt is one that lists a word the store name
\* holds, when there is such a word; else a category no other category has
\* more items than; else, without items, Other.
C8_ReceiptCategory ==
  pc \in {"return", "done"} =>
    IF keywordCategories(toLowerCase(storeName)) # {}
    THEN category \in keywordCategories(toLowerCase(storeName))
    ELSE IF Len(items) > 0
         THEN \A c \in Categories : countOf(items, category) >= countOf(items, c)
    ELSE category = "Other"

C8_Witness ==
  /\ pc = "done"
  /\ keywordCategories(toLowerCase(storeName)) = {}
  /\ countOf(items, "Groceries") = 2
  /\ countOf(items, "Household") = 1
  /\ category = "Groceries"

(***************************************************************************)
(* Properties of the sustainability score.                                 *)
(***************************************************************************)
\* C9: the scorer gives 50 for the empty list, and every row of receipts
\* written for a record without items has the sustainability_score '50'.
C9_NoItemsScoreFifty ==
  /\ calculateSustainabilityScore(<<>>) = 50
  /\ \A r \in 1..Len(receipts) :
       Len(extractedData.items) = 0 => receipts[r].sustainability_score = "50"

C9_Witness ==
  /\ Len(receipts) = 1
  /\ ocr = "text"
  /\ pc = "done"
  /\ Len(extractedData.items) = 0
  /\ receipts[1].sustainability_score = "50"

\* C10: the score of every item list is a whole number from 0 to 100.
C10_ScoreWithin0And100 ==
  pc = "scored" => score \in 0..100

C10_Witness ==
  /\ pc = "scored"
  /\ Len(items) = 1
  /\ score = 95

\* C10 as stated: the score of every item list is within [10, 90]
C10_ScoreWithin10And90 ==
  pc = "scored" => score \in 10..90

(***************************************************************************)
(* Properties of categorizeItem and of the score of an organic item.       *)
(***************************************************************************)
\* the same item under another name
renamed(item, n) == [item EXCEPT !.name = n]

\* C11: the item named ORGANIC APPLES is classified as Groceries, and a list
\* of that one item scores strictly higher than the list of the one item that
\* differs from it by the name APPLES only (same category, same price).
C11_OrganicScoresHigher ==
  Len(items) = 1 /\ items[1].name = "ORGANIC APPLES" =>
    /\ (pc = "classified" => items[1].category = "Groceries")
    /\ (pc = "scored" => score > calculateSustainabilityScore(<<renamed(items[1], "APPLES")>>))

C11_Witness ==
  /\ pc = "scored"
  /\ Len(items) = 1
  /\ items[1].name = "ORGANIC APPLES"
  /\ items[1].category = "Groceries"
  /\ score = 95
  /\ calculateSustainabilityScore(<<renamed(items[1], "APPLES")>>) = 60
\* the groups of keywords in the order categorizeItem tests them
GroupOrder == <<"Dining", "Groceries", "Household", "Personal Care", "Health", "Electronics",
                "Clothing">>
GroupWords == <<DiningWords, GroceryWords, HouseholdWords, PersonalCareWords, HealthWords,
                ElectronicsWords, ClothingWords>>
\* the groups with a keyword that occurs in the name, case not counted
groupsOf(name) ==
  {g \in 1..Len(GroupOrder) : \E w \in GroupWords[g] : includes(toLowerCase(name), w)}
earliest(gs) == CHOOSE g \in gs : \A h \in gs : g <= h

\* C15: categorizeItem gives every name exactly one label of the fixed set:
\* the label of the earliest group, in the order Dining, Groceries, Household,
\* Personal Care, Health, Electronics, Clothing, that has a keyword in the
\* name, and Other when no group has one.
C15_EarliestGroupDecides ==
  pc = "classified" =>
    /\ items[1].category \in Categories
    /\ items[1].category = IF groupsOf(items[1].name) = {} THEN "Other"
                           ELSE GroupOrder[earliest(groupsOf(items[1].name))]

C15_Witness ==
  /\ pc = "classified"
  /\ items[1].name = "COFFEE CUP"
  /\ groupsOf(items[1].name) = {1, 3}
  /\ items[1].category = "Dining"

(***************************************************************************)
(* Properties of parseReceiptText: the store name.                         *)
(***************************************************************************)
\* the patterns of known retailers that match the text
knownIn(txt) == {k \in 1..Len(storePatterns) : test(storePatterns[k], txt)}
\* what the earliest of them, in the order of the list, matches in the text
firstHit(txt) == match(txt, storePatterns[earliest(knownIn(txt))]).all

\* the first character in upper case and every other character in lower case
firstUpperOnly(name, w) ==
  /\ Len(name) = Len(w)
  /\ \A i \in 1..Len(w) : At(name, i) = IF i = 1 THEN UpperCh(At(w, i)) ELSE LowerCh(At(w, i))
\* every word starts in upper case and goes on in lower case
titleCased(name, w) ==
  /\ Len(name) = Len(w)
  /\ \A i \in 1..Len(w) :
       At(name, i) = IF i = 1 \/ At(w, IF i = 1 THEN 1 ELSE i - 1) \in Space
                     THEN UpperCh(At(w, i)) ELSE LowerCh(At(w, i))

\* C13: when a pattern of a known retailer matches the text, the store name is
\* what the earliest matching pattern of the list matches, its first character
\* in upper case and all the others in lower case (Walmart, Whole foods, Best
\* buy), whatever the first five lines would give.
C13_KnownStoreCapitalized ==
  pc = "done" /\ knownIn(text) # {} =>
    /\ firstUpperOnly(storeName, firstHit(text))
    /\ result.storeName = storeName

C13_Witness ==
  /\ pc = "done"
  /\ knownIn(text) = {3}
  /\ result.storeName = "Whole foods"
  /\ storeFromFirstLines(lines, 0, UnknownStore) = "WHOLE FOODS MARKET"

\* C13 as stated: the store name of a known retailer has every word capitalised.
C13_TitleCased ==
  pc = "done" /\ knownIn(text) # {} => titleCased(result.storeName, firstHit(text))

\* the first five lines give no name of more than 2 characters
noNameInFirstLines(ls) ==
  \A i \in 1..atMost(Len(ls), 5) :
    ~(looksLikeStoreName(ls[i]) /\ Len(cleanStoreName(ls[i])) > 2)

\* C14: with no known retailer in the text and no name of more than 2
\* characters in the first five lines, the store name returned is Unknown Store.
C14_UnknownStore ==
  pc = "done" /\ knownIn(text) = {} /\ noNameInFirstLines(lines) =>
    result.storeName = UnknownStore

(***************************************************************************)
(* Properties of parseReceiptText: the loop over the lines for the items.  *)
(***************************************************************************)
\* the line the loop is at, when it is not skipped
lineOf(ls, i) == trim(ls[i + 1])
examined(ls, i) == Len(lineOf(ls, i)) > 0 /\ ~shouldSkip(lineOf(ls, i))
\* the item patterns that match the line, and those whose match is a valid item
matching(line) == {k \in 1..Len(itemPatterns) : match(line, itemPatterns[k]).ok}
fieldsOf(line, k) == matchedFields(match(line, itemPatterns[k]))
validFields(f) == validItem(f.name, f.price, NonItemWords)
passing(line) == {k \in matching(line) : validFields(fieldsOf(line, k))}
itemOf(f) == makeItem(f.name, f.price, f.quantity)
\* the step adds no item of the line alone
noSingleLineItem == items' = items \/ ii' = ii + 2

\* C16: on each line the item patterns are tried in the order of the list
\* until the match of one is a valid item: that pattern alone gives the item
\* of the line, and a match that fails the validation lets the later patterns
\* be tried.
C16_FirstValidMatch ==
  [][pc = "items" /\ ii < Len(lines) /\ examined(lines, ii) =>
       IF passing(lineOf(lines, ii)) # {}
       THEN /\ items' = Append(items, itemOf(fieldsOf(lineOf(lines, ii),
                                                      earliest(passing(lineOf(lines, ii))))))
            /\ ii' = ii + 1
       ELSE noSingleLineItem]_vars

C16_Witness ==
  /\ pc = "items"
  /\ ii = 1
  /\ matching(lineOf(lines, 0)) = {5, 7}
  /\ passing(lineOf(lines, 0)) = {7}
  /\ items = <<[name |-> "TV 2", price |-> 60000, category |-> "Other", quantity |-> 1]>>

\* C16 as stated: only the first pattern that matches the line is used, also
\* when its match fails the validation.
C16_FirstMatchOnly ==
  [][pc = "items" /\ ii < Len(lines) /\ examined(lines, ii)
       /\ matching(lineOf(lines, ii)) # {} =>
       IF validFields(fieldsOf(lineOf(lines, ii), earliest(matching(lineOf(lines, ii)))))
       THEN items' = Append(items, itemOf(fieldsOf(lineOf(lines, ii),
                                                   earliest(matching(lineOf(lines, ii))))))
       ELSE noSingleLineItem]_vars

\* a line in a quantity format: name, quantity, @ or x, unit price
quantityPatterns == {5, 6}
quantityFormat(line) == matching(line) \cap quantityPatterns
statedItem(line) == itemOf(fieldsOf(line, earliest(quantityFormat(line))))

\* C17: a line in a quantity format that gives a valid item is extracted as
\* that item, with the quantity stated and the price quantity x unit price;
\* an item extracted from any other line has the quantity 1.
C17_QuantityLines ==
  [][pc = "items" /\ ii < Len(lines) /\ examined(lines, ii) =>
       IF quantityFormat(lineOf(lines, ii)) # {}
       THEN validFields(fieldsOf(lineOf(lines, ii), earliest(quantityFormat(lineOf(lines, ii)))))
              => items' = Append(items, statedItem(lineOf(lines, ii)))
       ELSE items' # items => items'[Len(items')].quantity = 1]_vars

\* the two-line fallback is reached at line i, and it gives an item or not
fallbackTried(ls, i) ==
  examined(ls, i) /\ passing(lineOf(ls, i)) = {} /\ i < Len(ls) - 1
fallbackItem(ls, i) == twoLineItem(lineOf(ls, i), trim(ls[i + 2]))
fallbackEmits(ls, i) == fallbackTried(ls, i) /\ fallbackItem(ls, i).found

\* C18: a step of the loop at line i that emits a two-line item resumes at
\* line i + 2, so the line of the price is never examined; every other step
\* resumes at line i + 1 and consumes nothing when the fallback fails.  A step
\* appends at most one item, so each line gives at most one item, the items
\* are in the order of their lines and are never more than the lines.
C18_TwoLineAdvance ==
  [][pc = "items" /\ ii < Len(lines) =>
       /\ IF fallbackEmits(lines, ii)
          THEN items' = Append(items, fallbackItem(lines, ii).item) /\ ii' = ii + 2
          ELSE ii' = ii + 1
       /\ (fallbackTried(lines, ii) /\ ~fallbackItem(lines, ii).found => items' = items)
       /\ (items' = items \/ \E x \in {items'[Len(items')]} : items' = Append(items, x))
       /\ Len(items') <= ii'
       /\ ii' <= Len(lines)]_vars

C18_Witness ==
  /\ pc = "items"
  /\ ii = 2
  /\ fallbackEmits(lines, 0)
  /\ items = <<[name |-> "BANANAS", price |-> 129, category |-> "Groceries", quantity |-> 1]>>

RECURSIVE candidatesFrom(_, _)
candidatesFrom(txt, k) ==
  IF k > Len(datePatterns) THEN <<>>
  ELSE matchAll(txt, withFlagsG(datePatterns[k])) \o candidatesFrom(txt, k + 1)
\* the candidate is a date of the calendar from a year before the day n to n
acceptable(c, n) ==
  /\ isCalendarDate(expandShortYear(c))
  /\ newDate(expandShortYear(c)) >= oneYearAgo(n)
  /\ newDate(expandShortYear(c)) <= n
acceptableIn(cs, n) == {j \in 1..Len(cs) : acceptable(cs[j], n)}
firstAcceptable(cs, n) == cs[earliest(acceptableIn(cs, n))]

\* C20: the date returned is the first candidate, in the order pattern by
\* pattern and match by match, that is a date of the calendar between a year
\* before today and today; the candidates before it are rejected and none
\* after it is looked at; it is today when no candidate is accepted.
C20_FirstAcceptedCandidate ==
  pc = "done" =>
    result.date = IF acceptableIn(candidatesFrom(text, 1), now) = {} THEN isoDate(now)
                  ELSE isoDate(newDate(expandShortYear(
                                 firstAcceptable(candidatesFrom(text, 1), now))))

topCategories(its) ==
  {c \in Categories : countOf(its, c) > 0 /\ \A d \in Categories : countOf(its, d) <= countOf(its, c)}
firstItemOf(its, c) == earliest({j \in 1..Len(its) : its[j].category = c})
\* the vote decides: the store name holds no keyword and there are items
voteDecides == keywordCategories(toLowerCase(storeName)) = {} /\ Len(items) > 0

\* C21: when the vote decides and several categories have the highest count,
\* the category of the receipt is the one of them that comes last in the
\* tally, the one whose first item is latest in the list of items.
C21_TieGoesToLatest ==
  pc \in {"return", "done"} /\ voteDecides =>
    /\ category \in topCategories(items)
    /\ \A c \in topCategories(items) : firstItemOf(items, c) <= firstItemOf(items, category)

C21_Witness ==
  /\ pc = "done"
  /\ voteDecides
  /\ Len(items) = 2
  /\ items[1].category = "Groceries"
  /\ items[2].category = "Household"
  /\ topCategories(items) = {"Groceries", "Household"}
  /\ category = "Household"

\* C21 as stated: the tie goes to the category whose first item is earliest.
C21_TieGoesToEarliest ==
  pc \in {"return", "done"} /\ voteDecides =>
    /\ category \in topCategories(items)
    /\ \A c \in topCategories(items) : firstItemOf(items, category) <= firstItemOf(items, c)

\* C23: every keyword of determineReceiptCategory that the store name holds
\* gives the receipt the category it is listed under.
C23_KeywordDecides ==
  pc \in {"return", "done"} =>
    \A k \in StoreKeywords :
      (\E w \in k.words : includes(toLowerCase(storeName), w)) => category = k.cat

(***************************************************************************)
(* Properties of parseReceiptText: dates with the name of the month.       *)
(***************************************************************************)
\* the patterns with the name of the month, as they are written (flag i), and
\* the patterns without
namedPatterns == {3, 4}
namedDates(txt) == {k \in namedPatterns : test(datePatterns[k], txt)}
numericDates(txt) ==
  {k \in (1..Len(datePatterns)) \ namedPatterns : test(datePatterns[k], txt)}
namedDate(txt) == newDate(match(txt, datePatterns[earliest(namedDates(txt))]).all)

\* C22: a text whose only date is written with the name of the month, in any
\* case of letters, and lies between a year before today and today, gives
\* that date.
C22_MonthNameAnyCase ==
  pc = "done" /\ numericDates(text) = {} /\ namedDates(text) # {}
    /\ accepted(namedDate(text), now) =>
    result.date = isoDate(namedDate(text))

(***************************************************************************)
(* Properties of the request handler.                                      *)
(***************************************************************************)
startsWith(s, prefix) == Len(s) >= Len(prefix) /\ SubSeq(s, 1, Len(prefix)) = prefix
\* something was written to the bucket or to a table
someEffect == uploaded # {} \/ Len(receipts) > 0 \/ Len(receiptItems) > 0

\* C24: nothing is uploaded and no row is inserted unless the request is not
\* a preflight and its token has resolved to a user; every row of receipts
\* carries the id of that user and every image path starts with it.
C24_EffectsNeedUser ==
  /\ (someEffect => method # "OPTIONS" /\ user \in Users)
  /\ \A path \in uploaded \cup ({imagePath} \ {""}) : startsWith(path, user \o "/")
  /\ \A r \in 1..Len(receipts) : receipts[r].user_id = user

C24_Witness ==
  /\ hpc = "done"
  /\ response.status = 200
  /\ user = "user-2"
  /\ uploaded = {"user-2/r.jpg"}
  /\ Len(receipts) = 1
  /\ receipts[1].user_id = "user-2"
  /\ Len(receiptItems) = 2

\* C25: a request that is answered with success has inserted the row of
\* receipts and a row of receipt_items for every item it lists, and a request
\* that is answered with an error has inserted no row of receipts.
C25_AllOrNothing ==
  hpc = "done" /\ method # "OPTIONS" =>
    IF response.status = 200
    THEN Len(receipts) = 1 /\ Len(receiptItems) = Len(response.items)
    ELSE Len(receipts) = 0

(***************************************************************************)
(* useReceipts in the browser: the effect on [user], fetchReceipts and     *)
(* processReceipt.  A step is what runs between two awaits; the calls that *)
(* await are in hook.fetches and hook.calls.                               *)
(***************************************************************************)
\* the calls of one kind that await at one time
MaxInFlight == 2

\* the images handed to processReceipt: none, one that atob accepts, one it rejects
Images == {"", "aGk=", "%%"}
validBase64(image) == image = "aGk="

\* what select('*') on receipts answers to the session of s: the rows the policy
\* "auth.uid() = user_id" lets through, none for no session
RowsFor(s) == IF s = "" THEN {<<>>} ELSE {<<>>, <<[id |-> 1, user_id |-> s]>>}

\* what select('*') on receipt_items answers for the receipt
ItemRowsFor(s) == IF s = "" THEN {<<>>} ELSE {<<>>, <<[receipt_id |-> 1, item_name |-> "MILK"]>>}

without(q, i) == [j \in 1..(Len(q) - 1) |-> IF j < i THEN q[j] ELSE q[j + 1]]

\* a state of the hook changed: the component that uses it renders again
rerender(m) == IF m.mounted THEN [m EXCEPT !.dirty = TRUE] ELSE m

\* fetchReceipts() up to its first await, in a render where the user is u: the
\* request goes out with the session the client has then
fetchReceipts(h, u) ==
  IF u = ""
  THEN [h EXCEPT !.receipts = <<>>, !.loading = FALSE]
  ELSE [h EXCEPT !.fetches = Append(@, [session |-> h.user])]

\* fetchReceipts() after its await: an answer with data, or an error
afterSelect(h, answer) ==
  IF answer.error
  THEN [h EXCEPT !.loading = FALSE]
  ELSE [h EXCEPT !.receipts = answer.data, !.loading = FALSE]

Answers(s) == {[error |-> FALSE, data |-> d] : d \in RowsFor(s)}
                \cup {[error |-> TRUE, data |-> <<>>]}

\* the first render is committed and the effect runs
Mount ==
  /\ ~hook.mounted
  /\ hook' = fetchReceipts([hook EXCEPT !.mounted = TRUE], hook.user)
  /\ modal' = rerender(modal)
  /\ UNCHANGED <<parserVars, score, returned, handlerVars, db>>

\* useAuth gives a user: the effect runs again
SignIn ==
  /\ hook.mounted
  /\ hook.user = ""
  /\ Len(hook.fetches) < MaxInFlight
  /\ \E u \in Users : hook' = fetchReceipts([hook EXCEPT !.user = u], u)
  /\ modal' = rerender(modal)
  /\ UNCHANGED <<parserVars, score, returned, handlerVars, db>>

\* useAuth gives null: the effect runs again
SignOut ==
  /\ hook.mounted
  /\ hook.user # ""
  /\ hook' = fetchReceipts([hook EXCEPT !.user = ""], "")
  /\ modal' = rerender(modal)
  /\ UNCHANGED <<parserVars, score, returned, handlerVars, db>>

\* a fetchReceipts() of the effect gets its answer
FetchSettles ==
  /\ \E i \in 1..Len(hook.fetches) : \E answer \in Answers(hook.fetches[i].session) :
       hook' = afterSelect([hook EXCEPT !.fetches = without(@, i)], answer)
  /\ modal' = rerender(modal)
  /\ UNCHANGED <<parserVars, score, returned, handlerVars, db>>

\* processReceipt throws at one of its two checks, before setProcessing(true)
ProcessRejected ==
  /\ hook.mounted
  /\ \E image \in Images :
       /\ hook.user = "" \/ image = ""
       /\ hook' = [hook EXCEPT !.thrown = IF hook.user = "" THEN "Not authenticated"
                                          ELSE "Image data is required"]
  /\ UNCHANGED <<parserVars, score, returned, handlerVars, modal, db>>

\* processReceipt on an image atob rejects: setProcessing(true), the throw, the
\* catch and setProcessing(false) in finally run without an await between them
ProcessInvalid ==
  /\ hook.mounted
  /\ hook.user # ""
  /\ \E image \in Images \ {""} :
       /\ ~validBase64(image)
       /\ hook' = [hook EXCEPT !.processing = FALSE, !.thrown = "Invalid image data format"]
  /\ modal' = rerender(modal)
  /\ UNCHANGED <<parserVars, score, returned, handlerVars, db>>

\* processReceipt up to its await of functions.invoke
ProcessStart ==
  /\ hook.mounted
  /\ hook.user # ""
  /\ Len(hook.calls) < MaxInFlight
  /\ \E image \in Images \ {""} :
       /\ validBase64(image)
       /\ hook' = [hook EXCEPT !.processing = TRUE,
                               !.calls = Append(@, [at |-> "invoke", session |-> ""])]
  /\ modal' = rerender(modal)
  /\ UNCHANGED <<parserVars, score, returned, handlerVars, db>>

\* functions.invoke answers with an error or without data: the throw, the catch,
\* setProcessing(false) in finally
InvokeFails ==
  /\ \E i \in 1..Len(hook.calls) :
       /\ hook.calls[i].at = "invoke"
       /\ hook' = [hook EXCEPT !.calls = without(@, i), !.processing = FALSE,
                               !.thrown = "Processing failed"]
  /\ modal' = rerender(modal)
  /\ UNCHANGED <<parserVars, score, returned, handlerVars, db>>

\* functions.invoke answers with data: await fetchReceipts(), of the render of the
\* call, where the user was not null
InvokeAnswers ==
  /\ \E i \in 1..Len(hook.calls) :
       /\ hook.calls[i].at = "invoke"
       /\ hook' = [hook EXCEPT !.calls[i] = [at |-> "refresh", session |-> hook.user]]
  /\ UNCHANGED <<parserVars, score, returned, handlerVars, modal, db>>

\* the fetchReceipts() of a call gets its answer; the call returns and
\* setProcessing(false) runs in finally
RefreshSettles ==
  /\ \E i \in 1..Len(hook.calls) :
       /\ hook.calls[i].at = "refresh"
       /\ \E answer \in Answers(hook.calls[i].session) :
            hook' = [afterSelect([hook EXCEPT !.calls = without(@, i)], answer)
                       EXCEPT !.processing = FALSE]
  /\ modal' = rerender(modal)
  /\ UNCHANGED <<parserVars, score, returned, handlerVars, db>>

hookStart(u) ==
  parseFrom("", "idle") /\ now = Today /\ items = <<>> /\ score = NoScore /\ returned = <<>>
  /\ handlerAt("direct", "")
  /\ hook = newHook(u) /\ modal = NoModal /\ db = NoDb

InitHook == \E u \in Users \cup {""} : hookStart(u)

NextHook ==
  \/ Mount
  \/ SignIn
  \/ SignOut
  \/ FetchSettles
  \/ ProcessRejected
  \/ ProcessInvalid
  \/ ProcessStart
  \/ InvokeFails
  \/ InvokeAnswers
  \/ RefreshSettles

SpecHook == InitHook /\ [][NextHook]_vars

(***************************************************************************)
(* Properties of useReceipts.                                              *)
(***************************************************************************)
\* the calls of processReceipt that await
inFlight == Len(hook.calls)

\* C26: in useReceipts, processing is true whenever at least one call of
\* processReceipt is in flight, also when calls overlap, it is false once every
\* call has settled, and a call rejected by the checks of the session token and
\* of the image data leaves processing as it was
C26_ProcessingWhileInFlight ==
  /\ [](hook.mounted => (hook.processing <=> inFlight > 0))
  /\ [][ProcessRejected => hook'.processing = hook.processing]_vars

\* the two parts of C26 the hook keeps: no call in flight, processing is false;
\* a rejected call leaves processing as it was
C26_FalseWhenSettled == hook.mounted /\ inFlight = 0 => ~hook.processing
C26_RejectedLeavesFlag == [][ProcessRejected => hook'.processing = hook.processing]_vars
C26_OneSettledOneInFlight == inFlight = 1 /\ ~hook.processing

\* the calls of fetchReceipts that await: those of the effect and those of processReceipt
fetching == Len(hook.fetches) > 0 \/ \E i \in 1..Len(hook.calls) : hook.calls[i].at = "refresh"

\* C27: in useReceipts, once the user is null and every call of fetchReceipts in
\* flight has settled, receipts is the empty list and loading is false: a fetch
\* started while a user was signed in does not fill receipts after the sign-out
C27_SignedOutShowsNothing ==
  hook.mounted /\ hook.user = "" /\ ~fetching => hook.receipts = <<>> /\ ~hook.loading

\* the part of C27 the hook keeps: loading is false then
C27_SignedOutNotLoading == hook.mounted /\ hook.user = "" /\ ~fetching => ~hook.loading

(***************************************************************************)
(* ReceiptDetailModal with its own useReceipts: the render, the effect on  *)
(* [receipt, isOpen, getReceiptItems] and the calls of getReceiptItems.    *)
(* modal.isOpen is "receipt && isOpen" for the one receipt of the page;    *)
(* modal.dirty says that a state changed and a render is due, modal.effect *)
(* that a render was committed whose effect has not run yet.               *)
(***************************************************************************)
\* the parent shows the receipt
Open ==
  /\ modal.mounted
  /\ ~modal.isOpen
  /\ modal' = [modal EXCEPT !.isOpen = TRUE, !.dirty = TRUE]
  /\ UNCHANGED <<parserVars, score, returned, handlerVars, hook, db>>

\* onClose
Close ==
  /\ modal.mounted
  /\ modal.isOpen
  /\ modal' = [modal EXCEPT !.isOpen = FALSE, !.dirty = TRUE]
  /\ UNCHANGED <<parserVars, score, returned, handlerVars, hook, db>>

\* the component renders: useReceipts() makes a new getReceiptItems, which is not
\* the one of the render before, so the effect is due whatever the other two
\* dependencies are
Render ==
  /\ modal.mounted
  /\ modal.dirty
  /\ ~modal.effect
  /\ modal' = [modal EXCEPT !.dirty = FALSE, !.effect = TRUE]
  /\ UNCHANGED <<parserVars, score, returned, handlerVars, hook, db>>

\* the body of the effect: setLoadingItems(true) changes the state when it was
\* false, setItems([]) sets an array that is not the one set before
runEffect(m, u) ==
  IF m.isOpen
  THEN [m EXCEPT !.effect = FALSE, !.loadingItems = TRUE, !.dirty = @ \/ ~m.loadingItems,
                 !.requests = Append(@, [session |-> u])]
  ELSE [m EXCEPT !.effect = FALSE, !.items = <<>>, !.dirty = TRUE]

RunEffect ==
  /\ modal.mounted
  /\ modal.effect
  /\ modal.isOpen => Len(modal.requests) < MaxInFlight
  /\ modal' = runEffect(modal, hook.user)
  /\ UNCHANGED <<parserVars, score, returned, handlerVars, hook, db>>

\* getReceiptItems resolves, with [] when the user is null or the select fails:
\* setItems(data), an array made by this call, and setLoadingItems(false)
ItemsSettle ==
  /\ \E i \in 1..Len(modal.requests) : \E data \in ItemRowsFor(modal.requests[i].session) :
       modal' = [modal EXCEPT !.requests = without(@, i), !.items = data,
                              !.loadingItems = FALSE, !.dirty = TRUE]
  /\ UNCHANGED <<parserVars, score, returned, handlerVars, hook, db>>

\* the first render is committed, its effects have not run
modalStart(u, o) ==
  parseFrom("", "idle") /\ now = Today /\ items = <<>> /\ score = NoScore /\ returned = <<>>
  /\ handlerAt("direct", "")
  /\ hook = newHook(u) /\ db = NoDb
  /\ modal = [NoModal EXCEPT !.mounted = TRUE, !.isOpen = o, !.effect = TRUE]

InitModal == \E u \in Users \cup {""}, o \in BOOLEAN : modalStart(u, o)

NextModal ==
  \/ Mount
  \/ SignIn
  \/ SignOut
  \/ FetchSettles
  \/ Open
  \/ Close
  \/ Render
  \/ RunEffect
  \/ ItemsSettle

\* React runs the renders and the effects that are due, and every request is
\* answered; nothing makes the user sign in or out, or open or close the modal
SpecModal ==
  /\ InitModal
  /\ [][NextModal]_vars
  /\ WF_vars(Mount) /\ WF_vars(FetchSettles)
  /\ WF_vars(Render) /\ WF_vars(RunEffect) /\ WF_vars(ItemsSettle)

\* nothing is due and nothing awaits in the modal
quiet ==
  ~modal.dirty /\ ~modal.effect /\ modal.requests = <<>> /\ ~modal.loadingItems

\* C28: while ReceiptDetailModal stays open on one receipt, its effect comes to
\* rest: from some point on getReceiptItems is not called again, no call awaits
\* and loadingItems is false
C28_EffectQuiesces == <>[]modal.isOpen => <>[]quiet

(***************************************************************************)
(* The database: the rows the handler inserts, the second migration and    *)
(* get_user_category_spending.  NULL is "", a row's id is its place in     *)
(* its table.                                                              *)
(***************************************************************************)
\* the uploads that succeed in one behaviour
MaxUploads == 2

\* the items extracted from the uploaded receipts
UploadItems ==
  {<<>>,
   <<[name |-> "MILK", price |-> 350, category |-> "Groceries", quantity |-> 1]>>,
   <<[name |-> "MILK", price |-> 350, category |-> "Groceries", quantity |-> 1],
     [name |-> "SOAP", price |-> 200, category |-> "Household", quantity |-> 2]>>,
   <<[name |-> "VITAMIN", price |-> 500, category |-> "Health", quantity |-> 1]>>}

\* INSERT INTO public.categories (name) VALUES ...
SeededCategories ==
  <<"Groceries", "Household", "Personal Care", "Electronics", "Clothing", "Dining", "Other">>
categoryRows == [k \in 1..Len(SeededCategories) |->
                   [id |-> "id of " \o SeededCategories[k], name |-> SeededCategories[k]]]

\* the rows of receipt_items as the handler's insert leaves them: the insert names
\* receipt_id, item_name, category, price and quantity, so category_id, once the
\* column exists, takes its default, NULL
inserted(rows, migrated) ==
  IF migrated THEN [j \in 1..Len(rows) |-> rows[j] @@ [category_id |-> ""]] ELSE rows

\* SELECT c.id FROM public.categories c WHERE c.name = receipt_items.category
idOfName(cats, name) ==
  IF \E k \in 1..Len(cats) : cats[k].name = name
  THEN (CHOOSE c \in {cats[k] : k \in 1..Len(cats)} : c.name = name).id
  ELSE ""

\* the handler for the user u, when everything succeeds: the insert into receipts
\* and the insert into receipt_items
Upload ==
  /\ Len(db.receipts) < MaxUploads
  /\ \E u \in Users, its \in UploadItems :
       db' = [db EXCEPT
                !.receipts = Append(@, [id |-> Len(@) + 1, user_id |-> u]),
                !.receipt_items =
                   @ \o inserted(itemRows(its, Len(db.receipts) + 1), db.migrated)]
  /\ UNCHANGED <<parserVars, score, returned, handlerVars, hook, modal>>

\* the second migration: the table categories and its rows, the column
\* category_id, and the UPDATE of the rows there are
Migrate ==
  /\ ~db.migrated
  /\ db' = [db EXCEPT
              !.migrated = TRUE,
              !.categories = categoryRows,
              !.receipt_items =
                 [j \in 1..Len(@) |->
                    @[j] @@ [category_id |-> idOfName(categoryRows, @[j].category)]]]
  /\ UNCHANGED <<parserVars, score, returned, handlerVars, hook, modal>>

\* r.user_id of the receipt
ownerOf(d, receiptId) ==
  (CHOOSE r \in {d.receipts[k] : k \in 1..Len(d.receipts)} : r.id = receiptId).user_id

\* FROM categories c LEFT JOIN receipt_items ri ON c.id = ri.category_id
\*                   LEFT JOIN receipts r ON ri.receipt_id = r.id
\* ri is 0 and user_id is "" in the row of a category without items
joinedFor(d, c) ==
  IF \E j \in 1..Len(d.receipt_items) : d.receipt_items[j].category_id = d.categories[c].id
  THEN {[c |-> c, ri |-> j, user_id |-> ownerOf(d, d.receipt_items[j].receipt_id)] :
          j \in {j \in 1..Len(d.receipt_items) :
                   d.receipt_items[j].category_id = d.categories[c].id}}
  ELSE {[c |-> c, ri |-> 0, user_id |-> ""]}

\* WHERE r.user_id = user_uuid OR r.user_id IS NULL
keptFor(d, c, user_uuid) ==
  {row \in joinedFor(d, c) : row.user_id = user_uuid \/ row.user_id = ""}

RECURSIVE sumSpent(_, _)
\* SUM(ri.price * ri.quantity) over the rows js of receipt_items
sumSpent(d, js) ==
  IF js = {} THEN 0
  ELSE LET j == CHOOSE j \in js : TRUE
       IN d.receipt_items[j].price * d.receipt_items[j].quantity + sumSpent(d, js \ {j})

\* the row of the group of the category c
groupRow(d, c, ris) ==
  [category_name |-> d.categories[c].name, item_count |-> Cardinality(ris),
   total_spent |-> sumSpent(d, ris)]

\* the function of the migration: GROUP BY c.id, c.name
\* HAVING COUNT(ri.id) > 0 OR c.name = 'Other'; there is no test of auth.uid()
\* and, the function being SECURITY DEFINER, no policy applies
get_user_category_spending(d, user_uuid) ==
  {row \in {groupRow(d, c, {k.ri : k \in keptFor(d, c, user_uuid)} \ {0}) :
              c \in {c \in 1..Len(d.categories) : keptFor(d, c, user_uuid) # {}}} :
     row.item_count > 0 \/ row.category_name = "Other"}

\* supabase.rpc('get_user_category_spending', {user_uuid}): the signed-in caller
\* chooses the argument
CallSpending ==
  /\ db.migrated
  /\ \E caller \in Users, user_uuid \in Users :
       db' = [db EXCEPT !.caller = caller, !.user_uuid = user_uuid,
                        !.spending = get_user_category_spending(db, user_uuid)]
  /\ UNCHANGED <<parserVars, score, returned, handlerVars, hook, modal>>

InitDb ==
  parseFrom("", "idle") /\ now = Today /\ items = <<>> /\ score = NoScore /\ returned = <<>>
  /\ handlerAt("direct", "")
  /\ hook = NoHook /\ modal = NoModal /\ db = NoDb

NextDb ==
  \/ Upload
  \/ Migrate
  \/ CallSpending

SpecDb == InitDb /\ [][NextDb]_vars

RECURSIVE sumCounts(_)
\* the sum of item_count over the rows of an answer
sumCounts(rows) ==
  IF rows = {} THEN 0
  ELSE LET row == CHOOSE row \in rows : TRUE IN row.item_count + sumCounts(rows \ {row})

\* the rows of receipt_items that belong to the receipts of u
itemsOwnedBy(d, u) ==
  {j \in 1..Len(d.receipt_items) : ownerOf(d, d.receipt_items[j].receipt_id) = u}

\* C29: every item the handler inserted for a receipt of a user is counted by
\* get_user_category_spending for that user: when a user asks for their own
\* spending, the sum of item_count over the answer is the number of the rows of
\* receipt_items of their receipts
C29_EveryItemCounted ==
  [][CallSpending /\ db'.caller = db'.user_uuid =>
       sumCounts(db'.spending) = Cardinality(itemsOwnedBy(db, db'.user_uuid))]_vars

\* C30: a signed-in user gets item counts and totals only of their own receipts:
\* a call of get_user_category_spending with the id of another user tells no
\* count and no total of that user
C30_OthersSpendingHidden ==
  db.caller # db.user_uuid =>
    \A row \in db.spending : row.item_count = 0 /\ row.total_spent = 0

====
